---- MODULE Spec2Model ----
(***************************************************************************)
(* CAMARA Application Endpoint Registration: the typed resource schema and *)
(* its validation layer (app/models), the five registration handlers       *)
(* (app/api/endpoints/application_endpoint_registration.py) and the        *)
(* request validation that runs in front of them.                          *)
(*                                                                         *)
(* Python values are modelled as tagged records so that any two of them    *)
(* can be compared: None, str (a sequence of one-character strings), int,  *)
(* dict (a function from keys to values), list, UUID, enum member and      *)
(* pydantic model instance (class name plus a record of field values).     *)
(***************************************************************************)
EXTENDS Integers, Sequences, FiniteSets, TLC

VARIABLES op, input, outcome, instance, http_request, http_response, handled, registry,
          users_db, user_call, user_result

vars ==
    <<op, input, outcome, instance, http_request, http_response, handled, registry,
      users_db, user_call, user_result>>

(***************************************************************************)
(* Python values                                                           *)
(***************************************************************************)
NoneV == [tag |-> "none"]

PyStr(s) == [tag |-> "str", v |-> s]

PyInt(i) == [tag |-> "int", v |-> i]

PyDict(d) == [tag |-> "dict", v |-> d]

PyList(l) == [tag |-> "list", v |-> l]

Uuid(h) == [tag |-> "uuid", v |-> h]

Enum(cls, token) == [tag |-> "enum", cls |-> cls, v |-> token]

Model(cls, fields) == [tag |-> "model", cls |-> cls, v |-> fields]

EmptyDict == [k \in {} |-> NoneV]

IsInstance(raw, cls) == raw.tag = "model" /\ raw.cls = cls

(***************************************************************************)
(* Validation results: a validated value, or the errors of a               *)
(* pydantic.ValidationError (each a location and an error type).  An       *)
(* error result carries no value.                                          *)
(***************************************************************************)
Ok(v) == [ok |-> TRUE, value |-> v, errors |-> {}]

Err(es) == [ok |-> FALSE, value |-> NoneV, errors |-> es]

E(loc, type) == [loc |-> loc, type |-> type]

Prefix(k, es) == {[loc |-> <<k>> \o e.loc, type |-> e.type] : e \in es}

(***************************************************************************)
(* Characters and strings                                                  *)
(***************************************************************************)
Digit == {"0", "1", "2", "3", "4", "5", "6", "7", "8", "9"}

Lower == {"a", "b", "c", "d", "e", "f", "g", "h", "i", "j", "k", "l", "m",
          "n", "o", "p", "q", "r", "s", "t", "u", "v", "w", "x", "y", "z"}

Upper == {"A", "B", "C", "D", "E", "F", "G", "H", "I", "J", "K", "L", "M",
          "N", "O", "P", "Q", "R", "S", "T", "U", "V", "W", "X", "Y", "Z"}

AlNum == Digit \cup Lower \cup Upper

HexDigit == Digit \cup {"a", "b", "c", "d", "e", "f", "A", "B", "C", "D", "E", "F"}

DigitSeq == <<"0", "1", "2", "3", "4", "5", "6", "7", "8", "9">>

DigitVal(c) == (CHOOSE n \in 1..10 : DigitSeq[n] = c) - 1

HexLower(c) ==
    CASE c = "A" -> "a" [] c = "B" -> "b" [] c = "C" -> "c"
      [] c = "D" -> "d" [] c = "E" -> "e" [] c = "F" -> "f"
      [] OTHER -> c

AllIn(s, cs) == \A i \in 1..Len(s) : s[i] \in cs

StartsWith(s, p) == Len(s) >= Len(p) /\ SubSeq(s, 1, Len(p)) = p

RECURSIVE SplitOn(_, _)
\* str.split(c): the pieces of s between the occurrences of c
SplitOn(s, c) ==
    IF \A i \in 1..Len(s) : s[i] # c
    THEN <<s>>
    ELSE LET i == CHOOSE k \in 1..Len(s) :
                      s[k] = c /\ \A j \in 1..(k - 1) : s[j] # c
         IN <<SubSeq(s, 1, i - 1)>> \o SplitOn(SubSeq(s, i + 1, Len(s)), c)

RECURSIVE DecimalValue(_)
DecimalValue(s) ==
    IF Len(s) = 0 THEN 0
    ELSE 10 * DecimalValue(SubSeq(s, 1, Len(s) - 1)) + DigitVal(s[Len(s)])

(***************************************************************************)
(* Scalar value types (app/models/basic_types.py and CamaraCommon): each   *)
(* wraps one primitive in a field named value and checks it with one rule. *)
(***************************************************************************)
DomainMinLen == 4

DomainMaxLen == 253

LabelMaxLen == 63

\* a label rule that takes letters and digits only
LabelOk_no_hyphen(l) ==
    /\ Len(l) >= 1
    /\ Len(l) <= LabelMaxLen
    /\ AllIn(l, AlNum)

\* [A-Za-z0-9]([A-Za-z0-9-]{0,61}[A-Za-z0-9])?
LabelOk(l) ==
    /\ Len(l) >= 1
    /\ Len(l) <= LabelMaxLen
    /\ AllIn(l, AlNum \cup {"-"})
    /\ l[1] \in AlNum
    /\ l[Len(l)] \in AlNum

LabelsOk(labels) ==
    /\ Len(labels) >= 2
    /\ \A i \in 1..Len(labels) : LabelOk(labels[i])

DomainGrammarOk(s) == LabelsOk(SplitOn(s, "."))

\* a DomainName rule without the minimum length
DomainNameRule_no_min_length(prim) ==
    IF prim.tag # "str" THEN Err({E(<<>>, "string_type")})
    ELSE IF Len(prim.v) > DomainMaxLen THEN Err({E(<<>>, "string_too_long")})
    ELSE IF ~DomainGrammarOk(prim.v) THEN Err({E(<<>>, "string_pattern_mismatch")})
    ELSE Ok(prim)

DomainNameRule(prim) ==
    IF prim.tag # "str" THEN Err({E(<<>>, "string_type")})
    ELSE IF Len(prim.v) < DomainMinLen THEN Err({E(<<>>, "string_too_short")})
    ELSE IF Len(prim.v) > DomainMaxLen THEN Err({E(<<>>, "string_too_long")})
    ELSE IF ~DomainGrammarOk(prim.v) THEN Err({E(<<>>, "string_pattern_mismatch")})
    ELSE Ok(prim)

PortMin == 0

PortMax == 65535

\* a Port rule whose upper limit is exclusive
PortRule_exclusive_max(prim) ==
    IF prim.tag # "int" THEN Err({E(<<>>, "int_type")})
    ELSE IF prim.v < PortMin THEN Err({E(<<>>, "greater_than_equal")})
    ELSE IF prim.v >= PortMax THEN Err({E(<<>>, "less_than")})
    ELSE Ok(prim)

PortRule(prim) ==
    IF prim.tag # "int" THEN Err({E(<<>>, "int_type")})
    ELSE IF prim.v < PortMin THEN Err({E(<<>>, "greater_than_equal")})
    ELSE IF prim.v > PortMax THEN Err({E(<<>>, "less_than_equal")})
    ELSE Ok(prim)

OctetMax == 255

OctetOk(o) ==
    /\ Len(o) >= 1
    /\ Len(o) <= 3
    /\ AllIn(o, Digit)
    /\ (Len(o) > 1 => o[1] # "0")
    /\ DecimalValue(o) <= OctetMax

OctetsOk(octets) ==
    /\ Len(octets) = 4
    /\ \A i \in 1..4 : OctetOk(octets[i])

Ipv4Ok(s) == OctetsOk(SplitOn(s, "."))

SingleIpv4AddrRule(prim) ==
    IF prim.tag # "str" THEN Err({E(<<>>, "string_type")})
    ELSE IF ~Ipv4Ok(prim.v) THEN Err({E(<<>>, "value_error")})
    ELSE Ok(prim)

HextetCount == 8

HextetOk(h) == Len(h) >= 1 /\ Len(h) <= 4 /\ AllIn(h, HexDigit)

\* the textual form without the zone: groups of hex digits with at most
\* one "::", and no embedded dotted quad
Ipv6GroupsOk(s) ==
    LET parts == SplitOn(s, ":")
        n == Len(parts)
        skips == {i \in 2..(n - 1) : parts[i] = <<>>}
    IN /\ AllIn(s, HexDigit \cup {":"})
       /\ n >= 3
       /\ n <= HextetCount + 1
       /\ Cardinality(skips) <= 1
       /\ IF skips = {}
          THEN n = HextetCount /\ \A i \in 1..n : HextetOk(parts[i])
          ELSE LET k == CHOOSE i \in skips : TRUE
                   hi == IF parts[1] = <<>> THEN k - 2 ELSE k - 1
                   lo == IF parts[n] = <<>> THEN n - k - 1 ELSE n - k
               IN /\ (parts[1] = <<>> => hi = 0)
                  /\ (parts[n] = <<>> => lo = 0)
                  /\ HextetCount - (hi + lo) >= 1
                  /\ \A i \in 1..hi : HextetOk(parts[i])
                  /\ \A i \in (n - lo + 1)..n : HextetOk(parts[i])

\* an IPv6 rule that takes no zone suffix
Ipv6Ok_no_zone(s) == Ipv6GroupsOk(s)

Ipv6Ok(s) ==
    LET pieces == SplitOn(s, "%")
    IN /\ Len(pieces) <= 2
       /\ (Len(pieces) = 2 => Len(pieces[2]) >= 1)
       /\ Ipv6GroupsOk(pieces[1])

SingleIpv6AddrRule(prim) ==
    IF prim.tag # "str" THEN Err({E(<<>>, "string_type")})
    ELSE IF ~Ipv6Ok(prim.v) THEN Err({E(<<>>, "value_error")})
    ELSE Ok(prim)

\* a UUID in its hyphenated, simple, braced or urn form; the value is the
\* 32 hex digits in lower case
UrnPrefix == <<"u", "r", "n", ":", "u", "u", "i", "d", ":">>

HyphenatedOk(s) ==
    /\ Len(s) = 36
    /\ \A i \in 1..36 : IF i \in {9, 14, 19, 24} THEN s[i] = "-" ELSE s[i] \in HexDigit

UuidHex(s) ==
    IF Len(s) = 32 /\ AllIn(s, HexDigit) THEN s
    ELSE IF HyphenatedOk(s)
    THEN SubSeq(s, 1, 8) \o SubSeq(s, 10, 13) \o SubSeq(s, 15, 18)
         \o SubSeq(s, 20, 23) \o SubSeq(s, 25, 36)
    ELSE IF Len(s) = 38 /\ s[1] = "{" /\ s[38] = "}" /\ HyphenatedOk(SubSeq(s, 2, 37))
    THEN SubSeq(s, 2, 9) \o SubSeq(s, 11, 14) \o SubSeq(s, 16, 19)
         \o SubSeq(s, 21, 24) \o SubSeq(s, 26, 37)
    ELSE IF Len(s) = 45 /\ StartsWith(s, UrnPrefix) /\ HyphenatedOk(SubSeq(s, 10, 45))
    THEN SubSeq(s, 10, 17) \o SubSeq(s, 19, 22) \o SubSeq(s, 24, 27)
         \o SubSeq(s, 29, 32) \o SubSeq(s, 34, 45)
    ELSE <<>>

\* the UUID of 32 hex digits, or the parse error when there are none
UuidOfHex(hex) ==
    IF hex = <<>> THEN Err({E(<<>>, "uuid_parsing")})
    ELSE Ok(Uuid([i \in 1..32 |-> HexLower(hex[i])]))

UuidRule(prim) ==
    IF prim.tag = "uuid" THEN Ok(prim)
    ELSE IF prim.tag # "str" THEN Err({E(<<>>, "uuid_type")})
    ELSE UuidOfHex(UuidHex(prim.v))

\* str(uuid): the canonical hyphenated lower-case form
UuidToString(u) ==
    SubSeq(u.v, 1, 8) \o <<"-">> \o SubSeq(u.v, 9, 12) \o <<"-">> \o SubSeq(u.v, 13, 16)
    \o <<"-">> \o SubSeq(u.v, 17, 20) \o <<"-">> \o SubSeq(u.v, 21, 32)

NonEmptyStringRule(prim) ==
    IF prim.tag # "str" THEN Err({E(<<>>, "string_type")})
    ELSE IF Len(prim.v) < 1 THEN Err({E(<<>>, "string_too_short")})
    ELSE Ok(prim)

StringRule(prim) ==
    IF prim.tag # "str" THEN Err({E(<<>>, "string_type")}) ELSE Ok(prim)

CorrelatorMaxLen == 256

CorrelatorChars == AlNum \cup {"-", "_", ":", ";", ".", "/", "<", ">", "{", "}"}

\* an XCorrelator rule that asks for at least one character
XCorrelatorRule_non_empty(prim) ==
    IF prim.tag # "str" THEN Err({E(<<>>, "string_type")})
    ELSE IF Len(prim.v) < 1 \/ Len(prim.v) > CorrelatorMaxLen
            \/ ~AllIn(prim.v, CorrelatorChars)
    THEN Err({E(<<>>, "string_pattern_mismatch")})
    ELSE Ok(prim)

XCorrelatorRule(prim) ==
    IF prim.tag # "str" THEN Err({E(<<>>, "string_type")})
    ELSE IF Len(prim.v) > CorrelatorMaxLen \/ ~AllIn(prim.v, CorrelatorChars)
    THEN Err({E(<<>>, "string_pattern_mismatch")})
    ELSE Ok(prim)

ACTIVE == <<"a", "c", "t", "i", "v", "e">>

INACTIVE == <<"i", "n", "a", "c", "t", "i", "v", "e">>

UNKNOWN == <<"u", "n", "k", "n", "o", "w", "n">>

\* a status type that falls back to unknown for a token it does not know
EdgeCloudZoneStatus_lenient(prim) ==
    IF prim.tag = "enum" /\ prim.cls = "EdgeCloudZoneStatus" THEN Ok(prim)
    ELSE IF prim.tag = "str" /\ prim.v \in {ACTIVE, INACTIVE, UNKNOWN}
    THEN Ok(Enum("EdgeCloudZoneStatus", prim.v))
    ELSE Ok(Enum("EdgeCloudZoneStatus", UNKNOWN))

EdgeCloudZoneStatus(prim) ==
    IF prim.tag = "enum" /\ prim.cls = "EdgeCloudZoneStatus" THEN Ok(prim)
    ELSE IF prim.tag = "str" /\ prim.v \in {ACTIVE, INACTIVE, UNKNOWN}
    THEN Ok(Enum("EdgeCloudZoneStatus", prim.v))
    ELSE Err({E(<<>>, "enum")})

ScalarRule(cls, prim) ==
    CASE cls = "DomainName" -> DomainNameRule(prim)
      [] cls = "SingleIpv4Addr" -> SingleIpv4AddrRule(prim)
      [] cls = "SingleIpv6Addr" -> SingleIpv6AddrRule(prim)
      [] cls = "Port" -> PortRule(prim)
      [] cls = "XCorrelator" -> XCorrelatorRule(prim)
      [] cls \in {"ApplicationProfileId", "ApplicationEndpointListId", "EdgeCloudZoneId"}
         -> UuidRule(prim)
      [] cls \in {"EdgeCloudZoneName", "EdgeCloudProvider", "EdgeCloudRegion"}
         -> NonEmptyStringRule(prim)

(***************************************************************************)
(* Classes.  A pydantic class is its field declarations and its            *)
(* model_config; the scalar classes are single-field wrappers whose        *)
(* `value` carries the format rule.                                        *)
(***************************************************************************)
Missing == [tag |-> "missing"]

\* Field(...): no default, the field is required
Required == [tag |-> "required"]

\* type annotations
Prim(rule) == [kind |-> "prim", of |-> rule]

Str == [kind |-> "str", of |-> "str"]

EnumOf(cls) == [kind |-> "enum", of |-> cls]

ModelOf(cls) == [kind |-> "model", of |-> cls]

ListOf(cls) == [kind |-> "list", of |-> cls]

\* name: type [| None] = Field(default, alias=alias)
Field(name, alias, type, nullable, default) ==
    [name |-> name, alias |-> alias, type |-> type, nullable |-> nullable,
     default |-> default, before |-> FALSE]

ScalarClasses ==
    {"DomainName", "SingleIpv4Addr", "SingleIpv6Addr", "Port", "XCorrelator",
     "ApplicationProfileId", "ApplicationEndpointListId", "EdgeCloudZoneId",
     "EdgeCloudZoneName", "EdgeCloudProvider", "EdgeCloudRegion"}

\* class <cls>(BaseModel): value: <constrained primitive>
ScalarClass(cls) ==
    [model_config |-> [populate_by_name |-> FALSE, frozen |-> FALSE],
     fields |-> <<Field("value", "value", Prim(cls), FALSE, Required)>>]

\* an EdgeCloudZone whose status is required
EdgeCloudZone_status_required ==
    [model_config |-> [populate_by_name |-> TRUE, frozen |-> FALSE],
     fields |-> <<
        Field("edge_cloud_zone_id", "edgeCloudZoneId", ModelOf("EdgeCloudZoneId"),
              FALSE, Required),
        Field("edge_cloud_zone_name", "edgeCloudZoneName", ModelOf("EdgeCloudZoneName"),
              FALSE, Required),
        Field("edge_cloud_provider", "edgeCloudProvider", ModelOf("EdgeCloudProvider"),
              FALSE, Required),
        Field("edge_cloud_region", "edgeCloudRegion", ModelOf("EdgeCloudRegion"),
              TRUE, NoneV),
        Field("edge_cloud_zone_status", "edgeCloudZoneStatus",
              EnumOf("EdgeCloudZoneStatus"), FALSE, Required)>>]

EdgeCloudZone ==
    [model_config |-> [populate_by_name |-> TRUE, frozen |-> FALSE],
     fields |-> <<
        Field("edge_cloud_zone_id", "edgeCloudZoneId", ModelOf("EdgeCloudZoneId"),
              FALSE, Required),
        Field("edge_cloud_zone_name", "edgeCloudZoneName", ModelOf("EdgeCloudZoneName"),
              FALSE, Required),
        Field("edge_cloud_provider", "edgeCloudProvider", ModelOf("EdgeCloudProvider"),
              FALSE, Required),
        Field("edge_cloud_region", "edgeCloudRegion", ModelOf("EdgeCloudRegion"),
              TRUE, NoneV),
        Field("edge_cloud_zone_status", "edgeCloudZoneStatus",
              EnumOf("EdgeCloudZoneStatus"), FALSE, Enum("EdgeCloudZoneStatus", UNKNOWN))>>]

\* a configuration that reads fields under their alias only
ApplicationEndpoint_model_config_alias_only == [populate_by_name |-> FALSE, frozen |-> FALSE]

ApplicationEndpoint_model_config == [populate_by_name |-> TRUE, frozen |-> FALSE]

\* @field_validator("domain_name", "ipv4_address", "ipv6_address", mode="before")
AddressField(name, alias, type) ==
    [Field(name, alias, type, TRUE, NoneV) EXCEPT !.before = TRUE]

ApplicationEndpoint ==
    [model_config |-> ApplicationEndpoint_model_config,
     fields |-> <<
        AddressField("domain_name", "domainName", ModelOf("DomainName")),
        AddressField("ipv4_address", "ipv4Address", ModelOf("SingleIpv4Addr")),
        AddressField("ipv6_address", "ipv6Address", ModelOf("SingleIpv6Addr")),
        Field("port", "port", ModelOf("Port"), FALSE, Required),
        Field("edge_cloud_zone", "edgeCloudZone", ModelOf("EdgeCloudZone"), TRUE, NoneV),
        Field("application_endpoint_description", "applicationEndpointDescription",
              Str, TRUE, NoneV)>>]

\* the "before" validator of the three address fields
validate_address_fields(v) == v

\* model_post_init asking for at least one address field
model_post_init_at_least_one(self) ==
    LET address_fields == <<self.v.domain_name # NoneV,
                            self.v.ipv4_address # NoneV,
                            self.v.ipv6_address # NoneV>>
    IN Cardinality({i \in 1..3 : address_fields[i]}) >= 1

\* TRUE when model_post_init returns, FALSE when it raises ValueError
model_post_init(self) ==
    LET address_fields == <<self.v.domain_name # NoneV,
                            self.v.ipv4_address # NoneV,
                            self.v.ipv6_address # NoneV>>
    IN Cardinality({i \in 1..3 : address_fields[i]}) = 1

ApplicationEndpointsInfo_model_config == [populate_by_name |-> TRUE, frozen |-> FALSE]

\* an ApplicationEndpointsInfo whose provider name may be left out
ApplicationEndpointsInfo_optional_provider ==
    [model_config |-> ApplicationEndpointsInfo_model_config,
     fields |-> <<
        Field("application_endpoints", "applicationEndpoints",
              ListOf("ApplicationEndpoint"), FALSE, Required),
        Field("application_provider_name", "applicationProviderName", Str, TRUE, NoneV),
        Field("application_description", "applicationDescription", Str, TRUE, NoneV),
        Field("application_profile_id", "applicationProfileId",
              ModelOf("ApplicationProfileId"), FALSE, Required)>>]

ApplicationEndpointsInfo ==
    [model_config |-> ApplicationEndpointsInfo_model_config,
     fields |-> <<
        Field("application_endpoints", "applicationEndpoints",
              ListOf("ApplicationEndpoint"), FALSE, Required),
        Field("application_provider_name", "applicationProviderName", Str, FALSE, Required),
        Field("application_description", "applicationDescription", Str, TRUE, NoneV),
        Field("application_profile_id", "applicationProfileId",
              ModelOf("ApplicationProfileId"), FALSE, Required)>>]

ApplicationEndpointList_model_config == [populate_by_name |-> TRUE, frozen |-> FALSE]

ApplicationEndpointList ==
    [model_config |-> ApplicationEndpointList_model_config,
     fields |-> <<
        Field("application_endpoint_list_id", "applicationEndpointListId",
              ModelOf("ApplicationEndpointListId"), FALSE, Required),
        Field("application_endpoints_info", "applicationEndpointsInfo",
              ModelOf("ApplicationEndpointsInfo"), FALSE, Required)>>]

RegisterApplicationEndpointsRequest ==
    [model_config |-> [populate_by_name |-> TRUE, frozen |-> FALSE],
     fields |-> <<
        Field("application_endpoints_info", "application_endpoints_info",
              ModelOf("ApplicationEndpointsInfo"), FALSE, Required)>>]

UpdateApplicationEndpointRequest ==
    [model_config |-> [populate_by_name |-> TRUE, frozen |-> FALSE],
     fields |-> <<
        Field("application_endpoints_info", "application_endpoints_info",
              ModelOf("ApplicationEndpointsInfo"), FALSE, Required)>>]

RegisterApplicationEndpointsResponse ==
    [model_config |-> [populate_by_name |-> TRUE, frozen |-> FALSE],
     fields |-> <<
        Field("application_endpoint_list_id", "applicationEndpointListId",
              ModelOf("ApplicationEndpointListId"), FALSE, Required)>>]

\* x_correlator of ApiResponseBase
ApiResponseBase ==
    [model_config |-> [populate_by_name |-> TRUE, frozen |-> FALSE],
     fields |-> <<
        Field("x_correlator", "x-correlator", ModelOf("XCorrelator"), TRUE, NoneV)>>]

\* class RegisterApplicationEndpointsApiResponse(ApiResponseBase)
RegisterApplicationEndpointsApiResponse ==
    [model_config |-> ApiResponseBase.model_config,
     fields |-> ApiResponseBase.fields \o <<
        Field("data", "data", ModelOf("RegisterApplicationEndpointsResponse"),
              FALSE, Required)>>]

Class(cls) ==
    CASE cls = "EdgeCloudZone" -> EdgeCloudZone
      [] cls = "ApplicationEndpoint" -> ApplicationEndpoint
      [] cls = "ApplicationEndpointsInfo" -> ApplicationEndpointsInfo
      [] cls = "ApplicationEndpointList" -> ApplicationEndpointList
      [] cls = "RegisterApplicationEndpointsRequest" -> RegisterApplicationEndpointsRequest
      [] cls = "UpdateApplicationEndpointRequest" -> UpdateApplicationEndpointRequest
      [] cls = "RegisterApplicationEndpointsResponse" -> RegisterApplicationEndpointsResponse
      [] cls = "RegisterApplicationEndpointsApiResponse"
         -> RegisterApplicationEndpointsApiResponse
      [] cls \in ScalarClasses -> ScalarClass(cls)

(***************************************************************************)
(* Validation: the constructor, or cls.model_validate(raw).  An instance   *)
(* of the class is taken as it is; anything but a dict is refused; from a  *)
(* dict every field is looked up and validated, the errors of all fields   *)
(* are collected, and only when there is none is the instance built and    *)
(* its model_post_init run.                                                *)
(***************************************************************************)
\* a field is read under its alias, and under its own name as well when
\* the class sets populate_by_name
Lookup(d, alias, name, config) ==
    IF alias \in DOMAIN d THEN d[alias]
    ELSE IF config.populate_by_name /\ name \in DOMAIN d THEN d[name]
    ELSE Missing

\* a list type that hands its items back in reverse
ListResult_reversed(items) ==
    LET errs == UNION {Prefix(ToString(i - 1), items[i].errors) : i \in DOMAIN items}
    IN IF errs # {} THEN Err(errs)
       ELSE Ok(PyList([i \in DOMAIN items |-> items[Len(items) + 1 - i].value]))

\* list[...]: the items validated one by one, kept in order
ListResult(items) ==
    LET errs == UNION {Prefix(ToString(i - 1), items[i].errors) : i \in DOMAIN items}
    IN IF errs # {} THEN Err(errs)
       ELSE Ok(PyList([i \in DOMAIN items |-> items[i].value]))

\* a constructor that hands back what it built next to the errors
Construction_partial(cls, errors, self) ==
    IF errors # {} THEN [ok |-> FALSE, value |-> self, errors |-> errors]
    ELSE IF cls = "ApplicationEndpoint" /\ ~model_post_init(self)
    THEN [ok |-> FALSE, value |-> self, errors |-> {E(<<>>, "value_error")}]
    ELSE Ok(self)

\* model_post_init run on whatever the fields gave, its error added to theirs
Construction_post_init_first(cls, errors, self) ==
    IF cls = "ApplicationEndpoint" /\ ~model_post_init(self)
    THEN Err(errors \cup {E(<<>>, "value_error")})
    ELSE IF errors # {} THEN Err(errors)
    ELSE Ok(self)

\* what the constructor gives its caller once the fields are validated: the
\* field errors when there are any; else model_post_init runs on the
\* instance, and the ValueError it raises is the error of the construction
Construction(cls, errors, self) ==
    IF errors # {} THEN Err(errors)
    ELSE IF cls = "ApplicationEndpoint" /\ ~model_post_init(self)
    THEN Err({E(<<>>, "value_error")})
    ELSE Ok(self)

FieldErrors(fields, results) ==
    UNION {Prefix(fields[i].alias, results[i].errors) : i \in DOMAIN fields}

FieldValues(fields, results) ==
    [n \in {fields[i].name : i \in DOMAIN fields} |->
        results[CHOOSE i \in DOMAIN fields : fields[i].name = n].value]

RECURSIVE Validate(_, _)

ValidateType(type, raw) ==
    CASE type.kind = "prim" -> ScalarRule(type.of, raw)
      [] type.kind = "str" -> StringRule(raw)
      [] type.kind = "enum" -> EdgeCloudZoneStatus(raw)
      [] type.kind = "model" -> Validate(type.of, raw)
      [] type.kind = "list"
         -> IF raw.tag # "list" THEN Err({E(<<>>, "list_type")})
            ELSE ListResult([i \in 1..Len(raw.v) |-> Validate(type.of, raw.v[i])])

\* a field left out takes its default (unvalidated) or is reported missing
ValidateField(f, raw) ==
    IF raw.tag = "missing"
    THEN IF f.default.tag = "required" THEN Err({E(<<>>, "missing")}) ELSE Ok(f.default)
    ELSE IF raw.tag = "none" /\ f.nullable THEN Ok(NoneV)
    ELSE ValidateType(f.type, IF f.before THEN validate_address_fields(raw) ELSE raw)

FieldResults(c, d) ==
    [i \in DOMAIN c.fields |->
        ValidateField(c.fields[i],
                      Lookup(d, c.fields[i].alias, c.fields[i].name, c.model_config))]

Build(cls, fields, results) ==
    Construction(cls, FieldErrors(fields, results),
                 Model(cls, FieldValues(fields, results)))

Validate(cls, raw) ==
    IF IsInstance(raw, cls) THEN Ok(raw)
    ELSE IF raw.tag # "dict" THEN Err({E(<<>>, "model_type")})
    ELSE Build(cls, Class(cls).fields, FieldResults(Class(cls), raw.v))

(***************************************************************************)
(* Serialization: model_dump(by_alias=..., mode=...).  Nested models       *)
(* become dicts keyed by field name or alias; in "json" mode a UUID        *)
(* becomes its string and an enum member its value.                        *)
(***************************************************************************)
Key(by_alias, alias, name) == IF by_alias THEN alias ELSE name

DumpPrimitive(v, mode) ==
    IF mode = "json" /\ v.tag = "uuid" THEN PyStr(UuidToString(v))
    ELSE IF mode = "json" /\ v.tag = "enum" THEN PyStr(v.v)
    ELSE v

FieldOfKey(fields, k, by_alias) ==
    fields[CHOOSE i \in DOMAIN fields : Key(by_alias, fields[i].alias, fields[i].name) = k]

RECURSIVE model_dump(_, _, _)

DumpValue(v, by_alias, mode) ==
    IF v.tag = "model" THEN model_dump(v, by_alias, mode)
    ELSE IF v.tag = "list"
    THEN PyList([i \in 1..Len(v.v) |-> model_dump(v.v[i], by_alias, mode)])
    ELSE DumpPrimitive(v, mode)

model_dump(self, by_alias, mode) ==
    PyDict([k \in {Key(by_alias, f.alias, f.name) :
                    f \in {Class(self.cls).fields[i] : i \in DOMAIN Class(self.cls).fields}} |->
               DumpValue(self.v[FieldOfKey(Class(self.cls).fields, k, by_alias).name],
                         by_alias, mode)])

(***************************************************************************)
(* Sample values the operations are exercised with                         *)
(***************************************************************************)
S_app_example_com == <<"a", "p", "p", ".", "e", "x", "a", "m", "p", "l", "e", ".", "c", "o", "m">>

S_ex_ample_com == <<"e", "x", " ", "a", "m", "p", "l", "e", ".", "c", "o", "m">>

S_192_168_1_1 == <<"1", "9", "2", ".", "1", "6", "8", ".", "1", ".", "1">>

S_256_1_1_1 == <<"2", "5", "6", ".", "1", ".", "1", ".", "1">>

S_2001_db8__1 == <<"2", "0", "0", "1", ":", "d", "b", "8", ":", ":", "1">>

S_2001_db8__1__2 == <<"2", "0", "0", "1", ":", "d", "b", "8", ":", ":", "1", ":", ":", "2">>

S_uuid_example == <<"1", "2", "3", "e", "4", "5", "6", "7", "-", "e", "8", "9", "b", "-", "1", "2", "d", "3", "-", "a", "4", "5", "6", "-", "4", "2", "6", "6", "1", "4", "1", "7", "4", "0", "0", "0">>

S_uuid_other == <<"b", "4", "3", "3", "3", "c", "4", "6", "-", "4", "9", "c", "0", "-", "4", "f", "6", "2", "-", "8", "0", "d", "7", "-", "f", "0", "e", "f", "9", "3", "0", "f", "1", "c", "4", "6">>

S_invalid_uuid == <<"i", "n", "v", "a", "l", "i", "d", "-", "u", "u", "i", "d">>

S_ZoneA == <<"Z", "o", "n", "e", "A">>

S_ProviderA == <<"P", "r", "o", "v", "i", "d", "e", "r", "A">>

S_us_west_1 == <<"u", "s", "-", "w", "e", "s", "t", "-", "1">>

S_AppProvider == <<"A", "p", "p", "P", "r", "o", "v", "i", "d", "e", "r">>

S_description == <<"V", "2", "X", " ", "a", "p", "p">>

S_correlator == <<"t", "e", "s", "t", "-", "c", "o", "r", "r", "e", "l", "a", "t", "i", "o", "n", "-", "i", "d", "-", "1", "2", "3">>

S_bad_correlator == <<"b", "a", "d", " ", "i", "d">>

S_John_Doe == <<"J", "o", "h", "n", " ", "D", "o", "e">>

S_john_doe_email ==
    <<"j", "o", "h", "n", ".", "d", "o", "e", "@", "e", "x", "a", "m", "p", "l", "e",
    ".", "c", "o", "m">>

S_Jane_Doe == <<"J", "a", "n", "e", " ", "D", "o", "e">>

S_jane_doe_email ==
    <<"j", "a", "n", "e", ".", "d", "o", "e", "@", "e", "x", "a", "m", "p", "l", "e",
    ".", "c", "o", "m">>

S_Email_already_registered ==
    <<"E", "m", "a", "i", "l", " ", "a", "l", "r", "e", "a", "d", "y", " ", "r", "e",
    "g", "i", "s", "t", "e", "r", "e", "d">>

S_User_not_found == <<"U", "s", "e", "r", " ", "n", "o", "t", " ", "f", "o", "u", "n", "d">>

S_User_ == <<"U", "s", "e", "r", " ">>

S__deleted_successfully ==
    <<" ", "d", "e", "l", "e", "t", "e", "d", " ", "s", "u", "c", "c", "e", "s", "s",
    "f", "u", "l", "l", "y">>

S_a_bc == <<"a", ".", "b", "c">>

S_a_b == <<"a", ".", "b">>

S_example == <<"e", "x", "a", "m", "p", "l", "e">>

S_example_dot == <<"e", "x", "a", "m", "p", "l", "e", ".">>

S_dot_example_com == <<".", "e", "x", "a", "m", "p", "l", "e", ".", "c", "o", "m">>

S_example__com == <<"e", "x", "a", "m", "p", "l", "e", ".", ".", "c", "o", "m">>

S_xn_nxasmq6b_com ==
    <<"x", "n", "-", "-", "n", "x", "a", "s", "m", "q", "6", "b", ".", "c", "o", "m">>

S_test_domain_org == <<"t", "e", "s", "t", "-", "d", "o", "m", "a", "i", "n", ".", "o", "r", "g">>

S_Sub_Example_COM == <<"S", "u", "b", ".", "E", "x", "a", "m", "p", "l", "e", ".", "C", "O", "M">>

S_ex_underscore_com == <<"e", "x", "_", "a", "m", "p", "l", "e", ".", "c", "o", "m">>

S_loopback == <<":", ":", "1">>

S_unspecified == <<":", ":">>

S_fe80__1_lo0 == <<"f", "e", "8", "0", ":", ":", "1", "%", "l", "o", "0">>

S_2001_db8_85a3 ==
    <<"2", "0", "0", "1", ":", "d", "b", "8", ":", "8", "5", "a", "3", ":", ":", "8",
    "a", "2", "e", ":", "3", "7", "0", ":", "7", "3", "3", "4">>

S_full_ipv6 ==
    <<"2", "0", "0", "1", ":", "0", "d", "b", "8", ":", "0", "0", "0", "0", ":", "0",
    "0", "0", "0", ":", "0", "0", "0", "0", ":", "f", "f", "0", "0", ":", "0", "0", "4",
    "2", ":", "8", "3", "2", "9">>

S_nine_groups ==
    <<"1", ":", "2", ":", "3", ":", "4", ":", "5", ":", "6", ":", "7", ":", "8", ":",
    "9">>

S_seven_groups == <<"1", ":", "2", ":", "3", ":", "4", ":", "5", ":", "6", ":", "7">>

S_long_hextet == <<"1", "2", "3", "4", "5", ":", ":", "1">>

S_not_hex == <<"2", "0", "0", "1", ":", "d", "b", "8", ":", ":", "g">>

S_ipv4_mapped ==
    <<":", ":", "f", "f", "f", "f", ":", "1", "9", "2", ".", "1", "6", "8", ".", "1",
    ".", "1">>

S_invalid_ip == <<"i", "n", "v", "a", "l", "i", "d", "-", "i", "p">>

S_empty_zone == <<"f", "e", "8", "0", ":", ":", "1", "%">>

S_FE80_upper == <<"F", "E", "8", "0", ":", ":", "A">>

S_invalid_status == <<"i", "n", "v", "a", "l", "i", "d", "-", "s", "t", "a", "t", "u", "s">>

S_ACTIVE_upper == <<"A", "C", "T", "I", "V", "E">>

S_simple_id == <<"s", "i", "m", "p", "l", "e", "-", "i", "d">>

S_complex_id ==
    <<"c", "o", "m", "p", "l", "e", "x", ":", "i", "d", ";", "w", "i", "t", "h", "/",
    "s", "p", "e", "c", "i", "a", "l", "<", "c", "h", "a", "r", "s", ">">>

S_braces_id == <<"{", "a", "_", "b", "}", ".", "c">>

Wrapped(prim) == PyDict([value |-> prim])

\* a dict without the keys whose value is Missing
Drop(f) == [k \in {x \in DOMAIN f : f[x].tag # "missing"} |-> f[k]]

\* the forms a scalar field is given in: left out, None, a dict holding a
\* good or a bad primitive, the bare primitive, an instance of the class
ScalarForms(cls, good, bad) ==
    {Missing, NoneV, Wrapped(good), Wrapped(bad), good, Model(cls, [value |-> good])}

PortForms == {Missing, Wrapped(PyInt(8080)), Wrapped(PyInt(65536)), PyInt(8080)}

ZoneWire ==
    PyDict([edgeCloudZoneId |-> PyStr(S_uuid_example),
            edgeCloudZoneName |-> PyStr(S_ZoneA),
            edgeCloudProvider |-> PyStr(S_ProviderA),
            edgeCloudRegion |-> PyStr(S_us_west_1),
            edgeCloudZoneStatus |-> PyStr(ACTIVE)])

ZoneWrapped ==
    PyDict([edgeCloudZoneId |-> Wrapped(PyStr(S_uuid_example)),
            edgeCloudZoneName |-> Wrapped(PyStr(S_ZoneA)),
            edgeCloudProvider |-> Wrapped(PyStr(S_ProviderA)),
            edgeCloudRegion |-> Wrapped(PyStr(S_us_west_1)),
            edgeCloudZoneStatus |-> PyStr(ACTIVE)])

ZoneNoName ==
    PyDict([edgeCloudZoneId |-> Wrapped(PyStr(S_uuid_example)),
            edgeCloudProvider |-> Wrapped(PyStr(S_ProviderA))])

\* the zone and the description an endpoint input comes with
ZoneAndDescription ==
    {<<Missing, Missing>>, <<ZoneWire, Missing>>, <<ZoneWrapped, PyStr(S_description)>>,
     <<ZoneNoName, Missing>>, <<Missing, PyInt(5)>>}

EndpointDict(by_alias, dn, v4, v6, port, zone, description) ==
    PyDict(Drop(
        (Key(by_alias, "domainName", "domain_name") :> dn)
        @@ (Key(by_alias, "ipv4Address", "ipv4_address") :> v4)
        @@ (Key(by_alias, "ipv6Address", "ipv6_address") :> v6)
        @@ ("port" :> port)
        @@ (Key(by_alias, "edgeCloudZone", "edge_cloud_zone") :> zone)
        @@ (Key(by_alias, "applicationEndpointDescription",
                "application_endpoint_description") :> description)))

EndpointInputs ==
    {EndpointDict(by_alias, dn, v4, v6, port, zd[1], zd[2]) :
        by_alias \in BOOLEAN,
        dn \in ScalarForms("DomainName", PyStr(S_app_example_com), PyStr(S_ex_ample_com)),
        v4 \in {Missing, Wrapped(PyStr(S_192_168_1_1)), Wrapped(PyStr(S_256_1_1_1)),
                Model("SingleIpv4Addr", [value |-> PyStr(S_192_168_1_1)])},
        v6 \in {Missing, NoneV, Wrapped(PyStr(S_2001_db8__1)),
                Wrapped(PyStr(S_2001_db8__1__2))},
        port \in PortForms,
        zd \in ZoneAndDescription}

\* the items an endpoint list is built from: two valid dicts, a valid
\* instance, and a dict with no address field
MaxEndpoints == 2

EndpointItems ==
    {EndpointDict(TRUE, Wrapped(PyStr(S_app_example_com)), Missing, Missing,
                  Wrapped(PyInt(8080)), Missing, Missing),
     EndpointDict(TRUE, Missing, Missing, Wrapped(PyStr(S_2001_db8__1)),
                  Wrapped(PyInt(443)), ZoneWrapped, Missing),
     Model("ApplicationEndpoint",
           [domain_name |-> NoneV,
            ipv4_address |-> Model("SingleIpv4Addr", [value |-> PyStr(S_192_168_1_1)]),
            ipv6_address |-> NoneV,
            port |-> Model("Port", [value |-> PyInt(80)]),
            edge_cloud_zone |-> NoneV,
            application_endpoint_description |-> NoneV]),
     EndpointDict(TRUE, Missing, Missing, Missing, Wrapped(PyInt(8080)), Missing, Missing)}

EndpointLists == UNION {[1..n -> EndpointItems] : n \in 0..MaxEndpoints}

InfoDict(by_alias, endpoints, provider, description, profile) ==
    PyDict(Drop(
        (Key(by_alias, "applicationEndpoints", "application_endpoints") :> endpoints)
        @@ (Key(by_alias, "applicationProviderName", "application_provider_name") :> provider)
        @@ (Key(by_alias, "applicationDescription", "application_description") :> description)
        @@ (Key(by_alias, "applicationProfileId", "application_profile_id") :> profile)))

ProfileForms ==
    {Missing, Wrapped(PyStr(S_uuid_example)), Wrapped(PyStr(S_invalid_uuid)),
     PyStr(S_uuid_example),
     Model("ApplicationProfileId", [value |-> UuidRule(PyStr(S_uuid_other)).value])}

InfoInputs ==
    {InfoDict(by_alias, endpoints, provider, description, profile) :
        by_alias \in BOOLEAN,
        endpoints \in {Missing} \cup {PyList(l) : l \in EndpointLists},
        provider \in {Missing, PyStr(S_AppProvider), PyInt(7)},
        description \in {Missing, PyStr(S_description)},
        profile \in ProfileForms}

InfoGood ==
    InfoDict(TRUE, PyList(<<CHOOSE e \in EndpointItems : e.tag = "model">>),
             PyStr(S_AppProvider), Missing, Wrapped(PyStr(S_uuid_example)))

InfoEmpty ==
    InfoDict(FALSE, PyList(<<>>), PyStr(S_AppProvider), PyStr(S_description),
             Wrapped(PyStr(S_uuid_other)))

InfoNoProvider ==
    InfoDict(TRUE, PyList(<<>>), Missing, Missing, Wrapped(PyStr(S_uuid_example)))

ListIdForms ==
    {Missing, Wrapped(PyStr(S_uuid_example)), Wrapped(PyStr(S_invalid_uuid)),
     PyStr(S_uuid_example),
     Model("ApplicationEndpointListId", [value |-> UuidRule(PyStr(S_uuid_example)).value]),
     Model("ApplicationEndpointListId", [value |-> UuidRule(PyStr(S_uuid_other)).value])}

InfoForms ==
    {Missing, InfoGood, InfoEmpty, InfoNoProvider, Validate("ApplicationEndpointsInfo", InfoGood).value}

ListInputs ==
    {PyDict(Drop(
        (Key(by_alias, "applicationEndpointListId", "application_endpoint_list_id") :> id)
        @@ (Key(by_alias, "applicationEndpointsInfo", "application_endpoints_info") :> info))) :
        by_alias \in BOOLEAN, id \in ListIdForms, info \in InfoForms}

RequestInputs ==
    {PyDict(Drop([application_endpoints_info |-> info])) : info \in InfoForms}

ApiResponseInputs ==
    {PyDict(Drop(
        (Key(by_alias, "x-correlator", "x_correlator") :> x)
        @@ ("data" :> data))) :
        by_alias \in BOOLEAN,
        x \in ScalarForms("XCorrelator", PyStr(S_correlator), PyStr(S_bad_correlator)),
        data \in {Missing,
                  PyDict([applicationEndpointListId |-> Wrapped(PyStr(S_uuid_example))]),
                  PyDict([application_endpoint_list_id |-> Wrapped(PyStr(S_uuid_other))]),
                  PyDict(EmptyDict)}}

Inputs(cls) ==
    CASE cls = "ApplicationEndpoint" -> EndpointInputs
      [] cls = "ApplicationEndpointsInfo" -> InfoInputs
      [] cls = "ApplicationEndpointList" -> ListInputs
      [] cls \in {"RegisterApplicationEndpointsRequest", "UpdateApplicationEndpointRequest"}
         -> RequestInputs
      [] cls = "RegisterApplicationEndpointsApiResponse" -> ApiResponseInputs

Classes ==
    {"ApplicationEndpoint", "ApplicationEndpointsInfo", "ApplicationEndpointList",
     "RegisterApplicationEndpointsRequest", "UpdateApplicationEndpointRequest",
     "RegisterApplicationEndpointsApiResponse"}

ModelConfig(cls) == Class(cls).model_config

(***************************************************************************)
(* State: the last operation on the model layer (op, input, outcome), the  *)
(* instance the caller holds, for the HTTP layer the last request, its     *)
(* response, the handler that ran and the stored registrations, and for    *)
(* the user endpoints the list users_db, the last call and its result.     *)
(***************************************************************************)
Init ==
    /\ op = "none"
    /\ input = NoneV
    /\ outcome = Ok(NoneV)
    /\ instance = NoneV
    /\ http_request = NoneV
    /\ http_response = NoneV
    /\ handled = "none"
    /\ registry = <<>>
    /\ users_db = <<>>
    /\ user_call = [fn |-> "none", args |-> <<>>]
    /\ user_result = NoneV

\* instance = cls(**raw): the caller gets the instance, or the exception.
\* Validation reads nothing but its argument, so a behaviour follows one
\* constructed value: it is built first and then assigned to or dumped.
Construct(cls, raw) ==
    /\ op = "none"
    /\ op' = "construct"
    /\ input' = [cls |-> cls, raw |-> raw]
    /\ outcome' = Validate(cls, raw)
    /\ instance' = outcome'.value
    /\ UNCHANGED <<http_request, http_response, handled, registry>>
    /\ UNCHANGED <<users_db, user_call, user_result>>

\* the values assigned to a field of a held instance
AssignedValues(cls, field) ==
    CASE field = "domain_name"
         -> {NoneV, Model("DomainName", [value |-> PyStr(S_app_example_com)])}
      [] field = "ipv4_address"
         -> {NoneV, Model("SingleIpv4Addr", [value |-> PyStr(S_192_168_1_1)])}
      [] field = "ipv6_address" -> {NoneV}
      [] field = "port" -> {Model("Port", [value |-> PyInt(1)]), PyInt(65536)}
      [] field = "application_endpoint_list_id"
         -> {Model("ApplicationEndpointListId",
                   [value |-> UuidRule(PyStr(S_uuid_other)).value])}

AssignableFields(cls) ==
    CASE cls = "ApplicationEndpoint" -> {"domain_name", "ipv4_address", "ipv6_address", "port"}
      [] cls = "ApplicationEndpointList" -> {"application_endpoint_list_id"}
      [] OTHER -> {}

\* instance.field = value (BaseModel.__setattr__): refused when the class
\* is frozen, otherwise stored as given; none of the classes validates
\* assignments
SetAttr(field, value) ==
    /\ instance.tag = "model"
    /\ field \in AssignableFields(instance.cls)
    /\ value \in AssignedValues(instance.cls, field)
    /\ op' = "setattr"
    /\ input' = [cls |-> instance.cls, field |-> field, value |-> value]
    /\ IF ModelConfig(instance.cls).frozen
       THEN /\ outcome' = Err({E(<<field>>, "frozen_instance")})
            /\ instance' = instance
       ELSE /\ outcome' = Ok(NoneV)
            /\ instance' = [instance EXCEPT !.v[field] = value]
    /\ UNCHANGED <<http_request, http_response, handled, registry>>
    /\ UNCHANGED <<users_db, user_call, user_result>>

\* cls.model_validate(instance.model_dump(by_alias=..., mode=...)) of an
\* instance as validation returned it
RoundTrip(by_alias, mode) ==
    /\ op = "construct"
    /\ outcome.ok
    /\ op' = "revalidate"
    /\ input' = [cls |-> instance.cls, raw |-> model_dump(instance, by_alias, mode),
                 by_alias |-> by_alias, mode |-> mode]
    /\ outcome' = Validate(instance.cls, input'.raw)
    /\ UNCHANGED <<instance, http_request, http_response, handled, registry>>
    /\ UNCHANGED <<users_db, user_call, user_result>>

Next ==
    \/ \E cls \in Classes : \E raw \in Inputs(cls) : Construct(cls, raw)
    \/ \E field \in {"domain_name", "ipv4_address", "ipv6_address", "port",
                     "application_endpoint_list_id"} :
           \E value \in AssignedValues("", field) : SetAttr(field, value)
    \/ \E by_alias \in BOOLEAN : \E mode \in {"python", "json"} : RoundTrip(by_alias, mode)

Spec == Init /\ [][Next]_vars

(***************************************************************************)
(* Value construction: the scalar wrappers, EdgeCloudZone and the response *)
(* wrapper built from strings and integers at and around the limits of     *)
(* their rules.                                                            *)
(***************************************************************************)
\* c * n
Rep(c, n) == [i \in 1..n |-> c]

\* the strings of at most n characters of cs
Strings(cs, n) == UNION {[1..k -> cs] : k \in 0..n}

\* labels joined with dots
RECURSIVE Dotted(_)
Dotted(labels) ==
    IF Len(labels) = 1 THEN labels[1]
    ELSE labels[1] \o <<".">> \o Dotted(SubSeq(labels, 2, Len(labels)))

MaxDomainChars == 5

\* every short string of a letter, a hyphen and a dot; the domains of the
\* tests; labels of 63 and 64 characters; names of 253 and 254 characters
DomainStrings ==
    Strings({"a", "-", "."}, MaxDomainChars)
    \cup {S_app_example_com, S_a_bc, S_xn_nxasmq6b_com, S_test_domain_org, S_Sub_Example_COM,
          S_a_b, S_example, S_example_dot, S_dot_example_com, S_example__com, S_ex_ample_com,
          S_ex_underscore_com, <<".">>,
          Dotted(<<Rep("a", LabelMaxLen), <<"b", "c">> >>),
          Dotted(<<Rep("a", LabelMaxLen + 1), <<"b", "c">> >>),
          Dotted(<<Rep("a", 63), Rep("b", 63), Rep("c", 63), Rep("d", DomainMaxLen - 192)>>),
          Dotted(<<Rep("a", 63), Rep("b", 63), Rep("c", 63), Rep("d", DomainMaxLen - 191)>>)}

PortMargin == 3

\* the integers around both ends of the range, and some inside it
PortValues ==
    ((PortMin - PortMargin)..(PortMin + PortMargin))
    \cup ((PortMax - PortMargin)..(PortMax + PortMargin))
    \cup {80, 443, 8080, 32768}

MaxCorrelatorChars == 2

\* every short string of a letter, a digit, three of the special characters
\* and a space; the correlators of the tests; 256 and 257 characters
CorrelatorStrings ==
    Strings({"a", "7", "-", "/", "}", " "}, MaxCorrelatorChars)
    \cup {S_correlator, S_bad_correlator, S_uuid_other, S_simple_id, S_complex_id,
          S_braces_id, <<"a", "b", "!">>, <<"a", ",", "b">>,
          Rep("a", CorrelatorMaxLen), Rep("a", CorrelatorMaxLen + 1),
          Rep("a", CorrelatorMaxLen - 1) \o <<" ">>}

MaxIpv6Chars == 4

Ipv6Strings ==
    Strings({"1", "f", ":"}, MaxIpv6Chars)
    \cup {S_loopback, S_unspecified, S_2001_db8__1, S_fe80__1_lo0, S_2001_db8_85a3,
          S_full_ipv6, S_FE80_upper, S_seven_groups, S_nine_groups, S_long_hextet,
          S_not_hex, S_192_168_1_1, S_ipv4_mapped, S_invalid_ip, S_empty_zone,
          S_2001_db8__1__2}

StatusForms ==
    {Missing, PyStr(ACTIVE), PyStr(INACTIVE), PyStr(UNKNOWN), PyStr(S_invalid_status),
     PyStr(S_ACTIVE_upper), PyStr(<<>>), PyInt(1), Enum("EdgeCloudZoneStatus", INACTIVE)}

ZoneDict(by_alias, id, name, provider, region, status) ==
    PyDict(Drop(
        (Key(by_alias, "edgeCloudZoneId", "edge_cloud_zone_id") :> id)
        @@ (Key(by_alias, "edgeCloudZoneName", "edge_cloud_zone_name") :> name)
        @@ (Key(by_alias, "edgeCloudProvider", "edge_cloud_provider") :> provider)
        @@ (Key(by_alias, "edgeCloudRegion", "edge_cloud_region") :> region)
        @@ (Key(by_alias, "edgeCloudZoneStatus", "edge_cloud_zone_status") :> status)))

ZoneInputs ==
    {ZoneDict(by_alias, id, name, provider, region, status) :
        by_alias \in BOOLEAN,
        id \in {Missing, Wrapped(PyStr(S_uuid_example)),
                Model("EdgeCloudZoneId", [value |-> UuidRule(PyStr(S_uuid_other)).value])},
        name \in {Missing, Wrapped(PyStr(S_ZoneA)), Wrapped(PyStr(<<>>))},
        provider \in {Missing, Wrapped(PyStr(S_ProviderA))},
        region \in {Missing, NoneV, Wrapped(PyStr(S_us_west_1))},
        status \in StatusForms}

\* endpoints that differ in the port they are given
PortEndpointInputs ==
    {EndpointDict(TRUE, Wrapped(PyStr(S_app_example_com)), Missing, Missing, port,
                  Missing, Missing) :
        port \in {Missing, NoneV, Wrapped(PyInt(PortMin)), Wrapped(PyInt(PortMax)),
                  Wrapped(PyInt(PortMin - 1)), Wrapped(PyInt(PortMax + 1)),
                  Model("Port", [value |-> PyInt(8080)])}}

\* response wrappers that differ in the correlator they are given
CorrelatorResponseInputs ==
    {PyDict(Drop(
        ("x-correlator" :> x)
        @@ ("data" :> PyDict([applicationEndpointListId |-> Wrapped(PyStr(S_uuid_example))])))) :
        x \in {Missing, NoneV, Wrapped(PyStr(<<>>)), Wrapped(PyStr(S_correlator)),
               Wrapped(PyStr(Rep("a", CorrelatorMaxLen))),
               Wrapped(PyStr(Rep("a", CorrelatorMaxLen + 1))),
               Wrapped(PyStr(S_bad_correlator))}}

ValueClasses ==
    {"DomainName", "Port", "XCorrelator", "SingleIpv6Addr", "EdgeCloudZone",
     "ApplicationEndpoint", "RegisterApplicationEndpointsApiResponse"}

\* cls(value=...) for the scalar wrappers, cls(**raw) for the others
ValueInputs(cls) ==
    CASE cls = "DomainName" -> {Wrapped(PyStr(s)) : s \in DomainStrings}
      [] cls = "Port" -> {Wrapped(PyInt(i)) : i \in PortValues}
      [] cls = "XCorrelator" -> {Wrapped(PyStr(s)) : s \in CorrelatorStrings}
      [] cls = "SingleIpv6Addr" -> {Wrapped(PyStr(s)) : s \in Ipv6Strings}
      [] cls = "EdgeCloudZone" -> ZoneInputs
      [] cls = "ApplicationEndpoint" -> PortEndpointInputs
      [] cls = "RegisterApplicationEndpointsApiResponse" -> CorrelatorResponseInputs

NextValues == \E cls \in ValueClasses : \E raw \in ValueInputs(cls) : Construct(cls, raw)

SpecValues == Init /\ [][NextValues]_vars

(***************************************************************************)
(* HTTP layer.  main.py mounts api_router under /api/v1, which includes    *)
(* the registration router under /application-endpoint-registration/vwip.  *)
(* A request is routed by method and path; the parameters the handler      *)
(* declares (path UUID, JSON body, x-correlator header) are validated      *)
(* first, and the handler body runs only when none of them is in error.    *)
(***************************************************************************)
S_register_detail ==
    <<"A", "p", "p", "l", "i", "c", "a", "t", "i", "o", "n", " ", "e", "n", "d", "p", "o",
    "i", "n", "t", " ", "r", "e", "g", "i", "s", "t", "r", "a", "t", "i", "o", "n", " ",
    "n", "o", "t", " ", "y", "e", "t", " ", "i", "m", "p", "l", "e", "m", "e", "n", "t",
    "e", "d">>

S_get_all_detail ==
    <<"G", "e", "t", " ", "a", "l", "l", " ", "a", "p", "p", "l", "i", "c", "a", "t", "i",
    "o", "n", " ", "e", "n", "d", "p", "o", "i", "n", "t", "s", " ", "n", "o", "t", " ",
    "y", "e", "t", " ", "i", "m", "p", "l", "e", "m", "e", "n", "t", "e", "d">>

S_get_by_id_detail ==
    <<"G", "e", "t", " ", "a", "p", "p", "l", "i", "c", "a", "t", "i", "o", "n", " ", "e",
    "n", "d", "p", "o", "i", "n", "t", "s", " ", "b", "y", " ", "I", "D", " ", "n", "o",
    "t", " ", "y", "e", "t", " ", "i", "m", "p", "l", "e", "m", "e", "n", "t", "e", "d">>

S_update_detail ==
    <<"U", "p", "d", "a", "t", "e", " ", "a", "p", "p", "l", "i", "c", "a", "t", "i", "o",
    "n", " ", "e", "n", "d", "p", "o", "i", "n", "t", " ", "n", "o", "t", " ", "y", "e",
    "t", " ", "i", "m", "p", "l", "e", "m", "e", "n", "t", "e", "d">>

S_deregister_detail ==
    <<"D", "e", "r", "e", "g", "i", "s", "t", "e", "r", " ", "a", "p", "p", "l", "i", "c",
    "a", "t", "i", "o", "n", " ", "e", "n", "d", "p", "o", "i", "n", "t", " ", "n", "o",
    "t", " ", "y", "e", "t", " ", "i", "m", "p", "l", "e", "m", "e", "n", "t", "e", "d">>

S_Not_Found == <<"N", "o", "t", " ", "F", "o", "u", "n", "d">>

S_Method_Not_Allowed ==
    <<"M", "e", "t", "h", "o", "d", " ", "N", "o", "t", " ", "A", "l", "l", "o", "w", "e",
    "d">>

HTTP_501_NOT_IMPLEMENTED == 501

HTTP_422_UNPROCESSABLE_ENTITY == 422

HTTP_404_NOT_FOUND == 404

\* raise HTTPException(status_code=..., detail=...)
HTTPException(status_code, detail) == [status_code |-> status_code, detail |-> PyStr(detail)]

\* app.include_router(api_router, prefix="/api/v1")
api_prefix == <<"api", "v1">>

\* APIRouter(prefix="/application-endpoint-registration/vwip")
router_prefix == <<"application-endpoint-registration", "vwip">>

CollectionPath == api_prefix \o router_prefix \o <<"application-endpoint-lists">>

ItemPath(application_endpoint_list_id) == Append(CollectionPath, application_endpoint_list_id)

Handlers ==
    {"register_application_endpoints", "get_all_registered_application_endpoints",
     "get_application_endpoints_by_id", "update_application_endpoint",
     "deregister_application_endpoint"}

\* the routes of the application: the root route of main.py and, under
\* /api/v1, the routes of the one router api_router includes, the
\* registration router.  The handler a method and path select; "none" with
\* 404 for a path no route has and 405 for a path whose routes have another
\* method
Route(method, path) ==
    IF path = <<>>
    THEN CASE method = "GET" -> [handler |-> "root"]
           [] OTHER -> [handler |-> "none",
                        response |-> HTTPException(405, S_Method_Not_Allowed)]
    ELSE IF path = CollectionPath
    THEN CASE method = "POST" -> [handler |-> "register_application_endpoints"]
           [] method = "GET" -> [handler |-> "get_all_registered_application_endpoints"]
           [] OTHER -> [handler |-> "none",
                        response |-> HTTPException(405, S_Method_Not_Allowed)]
    ELSE IF Len(path) = Len(CollectionPath) + 1
            /\ SubSeq(path, 1, Len(CollectionPath)) = CollectionPath
    THEN CASE method = "GET" -> [handler |-> "get_application_endpoints_by_id"]
           [] method = "PUT" -> [handler |-> "update_application_endpoint"]
           [] method = "DELETE" -> [handler |-> "deregister_application_endpoint"]
           [] OTHER -> [handler |-> "none",
                        response |-> HTTPException(405, S_Method_Not_Allowed)]
    ELSE [handler |-> "none", response |-> HTTPException(HTTP_404_NOT_FOUND, S_Not_Found)]

\* a body parameter declared with a model class: the JSON body is required
\* and validated into the class
Body(cls, body) ==
    IF body.tag = "missing" THEN Err({E(<<>>, "missing")}) ELSE Validate(cls, body)

\* a path parameter declared as str
PathStr(segment) == Ok(PyStr(segment))

\* a path parameter declared as UUID
PathUUID(segment) == UuidRule(PyStr(segment))

\* a header parameter declared as XCorrelator | None
HeaderXCorrelator(value) ==
    IF value = NoneV \/ XCorrelatorRule(value).ok THEN Ok(value)
    ELSE Err({E(<<>>, "string_pattern_mismatch")})

\* a header declared as str | None = None: absent or any text
HeaderStrOrNone(value) == Ok(value)

\* the declared parameters together: the errors of all of them under their
\* place in the request, or the arguments the handler is called with
Args(params) ==
    LET errors == UNION {Prefix(k, params[k].errors) : k \in DOMAIN params}
    IN IF errors # {} THEN Err(errors)
       ELSE Ok([k \in DOMAIN params |-> params[k].value])

(***************************************************************************)
(* The handlers: `<handler>_params` is the parameters the handler          *)
(* declares, validated before it runs; `<handler>` is the handler body,    *)
(* giving the response and the registrations it leaves stored.             *)
(***************************************************************************)
\* the body handed to the handler as it came
register_application_endpoints_params_unchecked(r) ==
    Ok([request |-> r.body, x_correlator |-> r.x_correlator])

register_application_endpoints_params(r) ==
    Args([request |-> Body("RegisterApplicationEndpointsRequest", r.body),
          x_correlator |-> HeaderStrOrNone(r.x_correlator)])

\* a handler that stores the request and answers 201
register_application_endpoints_storing(request, x_correlator) ==
    [response |-> [status_code |-> 201, detail |-> NoneV],
     registry |-> Append(registry, request)]

register_application_endpoints(request, x_correlator) ==
    [response |-> HTTPException(HTTP_501_NOT_IMPLEMENTED, S_register_detail),
     registry |-> registry]

get_all_registered_application_endpoints_params(r) ==
    Args([x_correlator |-> HeaderStrOrNone(r.x_correlator)])

get_all_registered_application_endpoints(x_correlator) ==
    [response |-> HTTPException(HTTP_501_NOT_IMPLEMENTED, S_get_all_detail),
     registry |-> registry]

get_application_endpoints_by_id_params(r) ==
    Args([application_endpoint_list_id |-> PathUUID(r.path[Len(r.path)]),
          x_correlator |-> HeaderStrOrNone(r.x_correlator)])

get_application_endpoints_by_id(application_endpoint_list_id, x_correlator) ==
    [response |-> HTTPException(HTTP_501_NOT_IMPLEMENTED, S_get_by_id_detail),
     registry |-> registry]

update_application_endpoint_params(r) ==
    Args([application_endpoint_list_id |-> PathUUID(r.path[Len(r.path)]),
          request |-> Body("UpdateApplicationEndpointRequest", r.body),
          x_correlator |-> HeaderStrOrNone(r.x_correlator)])

update_application_endpoint(application_endpoint_list_id, request, x_correlator) ==
    [response |-> HTTPException(HTTP_501_NOT_IMPLEMENTED, S_update_detail),
     registry |-> registry]

deregister_application_endpoint_params(r) ==
    Args([application_endpoint_list_id |-> PathUUID(r.path[Len(r.path)]),
          x_correlator |-> HeaderStrOrNone(r.x_correlator)])

deregister_application_endpoint(application_endpoint_list_id, x_correlator) ==
    [response |-> HTTPException(HTTP_501_NOT_IMPLEMENTED, S_deregister_detail),
     registry |-> registry]

\* root() declares no parameter
root_params(r) == Ok(<<>>)

\* the welcome message, answered 200
root == [response |-> [status_code |-> 200, detail |-> NoneV], registry |-> registry]

\* the declared parameters of the handler h, validated from the request r
Params(h, r) ==
    CASE h = "root" -> root_params(r)
      [] h = "register_application_endpoints" -> register_application_endpoints_params(r)
      [] h = "get_all_registered_application_endpoints"
         -> get_all_registered_application_endpoints_params(r)
      [] h = "get_application_endpoints_by_id" -> get_application_endpoints_by_id_params(r)
      [] h = "update_application_endpoint" -> update_application_endpoint_params(r)
      [] h = "deregister_application_endpoint" -> deregister_application_endpoint_params(r)

\* the call of the handler h with its validated arguments
Call(h, args) ==
    CASE h = "root" -> root
      [] h = "register_application_endpoints"
         -> register_application_endpoints(args.request, args.x_correlator)
      [] h = "get_all_registered_application_endpoints"
         -> get_all_registered_application_endpoints(args.x_correlator)
      [] h = "get_application_endpoints_by_id"
         -> get_application_endpoints_by_id(args.application_endpoint_list_id,
                                            args.x_correlator)
      [] h = "update_application_endpoint"
         -> update_application_endpoint(args.application_endpoint_list_id, args.request,
                                        args.x_correlator)
      [] h = "deregister_application_endpoint"
         -> deregister_application_endpoint(args.application_endpoint_list_id,
                                            args.x_correlator)

\* the handler ran: its response, and what it left stored
Handled(h, out) == [response |-> out.response, handled |-> h, registry |-> out.registry]

\* the request did not reach a handler
Unhandled(response) == [response |-> response, handled |-> "none", registry |-> registry]

\* parameters in error are answered 422 with the errors, before the handler
Answer(h, params) ==
    IF params.ok THEN Handled(h, Call(h, params.value))
    ELSE Unhandled([status_code |-> HTTP_422_UNPROCESSABLE_ENTITY,
                    detail |-> [tag |-> "errors", v |-> params.errors]])

Routed(route, r) ==
    IF route.handler = "none" THEN Unhandled(route.response)
    ELSE Answer(route.handler, Params(route.handler, r))

Dispatch(r) == Routed(Route(r.method, r.path), r)

(***************************************************************************)
(* Requests: JSON bodies whose one endpoint has each of the 8 presence     *)
(* combinations of the address fields or a port out of range, with and     *)
(* without provider name and profile id, or with a list id next to the     *)
(* info; a valid and an invalid path id; with and without the x-correlator *)
(* header; and requests for the root, health and user paths.               *)
(***************************************************************************)
JsonEndpoints ==
    {EndpointDict(TRUE, dn, v4, v6, Wrapped(PyInt(8080)), Missing, Missing) :
        dn \in {Missing, Wrapped(PyStr(S_app_example_com))},
        v4 \in {Missing, Wrapped(PyStr(S_192_168_1_1))},
        v6 \in {Missing, Wrapped(PyStr(S_2001_db8__1))}}
    \cup {EndpointDict(TRUE, Wrapped(PyStr(S_app_example_com)), Missing, Missing,
                       Wrapped(PyInt(65536)), Missing, Missing)}

JsonInfos ==
    {InfoDict(TRUE, PyList(l), PyStr(S_AppProvider), Missing, Wrapped(PyStr(S_uuid_example))) :
        l \in {<<>>} \cup {<<e>> : e \in JsonEndpoints}}
    \cup {InfoDict(TRUE, PyList(<<>>), provider, Missing, profile) :
            provider \in {Missing, PyStr(S_AppProvider)},
            profile \in {Missing, Wrapped(PyStr(S_uuid_example))}}

\* a body that carries a list id next to the info
BodyWithId ==
    PyDict([application_endpoints_info
               |-> InfoDict(TRUE, PyList(<<>>), PyStr(S_AppProvider), Missing,
                            Wrapped(PyStr(S_uuid_example))),
            applicationEndpointListId |-> Wrapped(PyStr(S_uuid_other))])

Bodies ==
    {Missing, PyDict(EmptyDict), BodyWithId}
    \cup {PyDict([application_endpoints_info |-> info]) : info \in JsonInfos}

Correlators == {NoneV, PyStr(S_correlator), PyStr(S_bad_correlator)}

PathIds == {S_uuid_example, S_invalid_uuid}

HttpRequest(method, path, body, x_correlator) ==
    [method |-> method, path |-> path, body |-> body, x_correlator |-> x_correlator]

Requests ==
    {HttpRequest("POST", CollectionPath, body, x) : body \in Bodies, x \in Correlators}
    \cup {HttpRequest("PUT", ItemPath(id), body, x) :
            id \in PathIds, body \in Bodies, x \in Correlators}
    \cup {HttpRequest(method, ItemPath(id), Missing, x) :
            method \in {"GET", "DELETE", "POST"}, id \in PathIds, x \in Correlators}
    \cup {HttpRequest(method, CollectionPath, Missing, x) :
            method \in {"GET", "DELETE"}, x \in Correlators}
    \cup {HttpRequest("GET", <<>>, Missing, NoneV),
          HttpRequest("GET", api_prefix \o <<"health">>, Missing, NoneV),
          HttpRequest("GET", api_prefix \o <<"users">>, Missing, NoneV),
          HttpRequest("POST", api_prefix \o <<"users">>,
                      PyDict([name |-> PyStr(S_John_Doe), email |-> PyStr(S_john_doe_email)]),
                      NoneV)}

Served(out) ==
    /\ http_response' = out.response
    /\ handled' = out.handled
    /\ registry' = out.registry

\* one HTTP request served: routing, parameter validation, handler
Serve(r) ==
    /\ http_request' = r
    /\ Served(Dispatch(r))
    /\ UNCHANGED <<op, input, outcome, instance>>
    /\ UNCHANGED <<users_db, user_call, user_result>>

NextApi == \E r \in Requests : Serve(r)

SpecApi == Init /\ [][NextApi]_vars

(***************************************************************************)
(* The user endpoints of app/api/endpoints/users.py: five handlers over    *)
(* the module-level list users_db.  No router of the application includes  *)
(* them, so they are called as functions; each runs without an await, one  *)
(* call at a time.  Their arguments are the values their signatures        *)
(* declare: a validated UserCreate, integer ids and offsets.  `<handler>`  *)
(* gives the result of the call and the list it leaves in users_db.        *)
(***************************************************************************)
\* class User(UserBase): id, is_active and the name and email of UserBase
User(id, name, email, is_active) ==
    [id |-> id, name |-> name, email |-> email, is_active |-> is_active]

\* class UserCreate(UserBase)
UserCreate(name, email) == [name |-> name, email |-> email]

\* UserResponse.model_validate(user), from the attributes of a User
UserResponse(user) ==
    [id |-> user.id, name |-> user.name, email |-> user.email, is_active |-> user.is_active]

\* a value returned by a handler, answered 200
Returned(value) == [status_code |-> 200, body |-> value]

\* any(u.email == email for u in db)
EmailRegistered(db, email) == \E i \in 1..Len(db) : db[i].email = email

\* next((i for i, u in enumerate(db) if u.id == user_id), None): the first
\* position holding the id, 0 for None
FirstWithId(db, user_id) ==
    LET found == {i \in 1..Len(db) : db[i].id = user_id}
    IN IF found = {} THEN 0 ELSE CHOOSE i \in found : \A j \in found : i <= j

\* db.pop(i)
Pop(db, i) == SubSeq(db, 1, i - 1) \o SubSeq(db, i + 1, Len(db))

\* db[skip : skip + limit], for offsets that are not negative
Slice(db, skip, limit) ==
    SubSeq(db, skip + 1, IF skip + limit < Len(db) THEN skip + limit ELSE Len(db))

\* create_user without the check of the email
create_user_unchecked(user) ==
    LET new_user == User(Len(users_db) + 1, user.name, user.email, TRUE)
    IN [result |-> Returned(UserResponse(new_user)), users_db |-> Append(users_db, new_user)]

create_user(user) ==
    IF EmailRegistered(users_db, user.email)
    THEN [result |-> HTTPException(400, S_Email_already_registered), users_db |-> users_db]
    ELSE LET new_user == User(Len(users_db) + 1, user.name, user.email, TRUE)
         IN [result |-> Returned(UserResponse(new_user)),
             users_db |-> Append(users_db, new_user)]

get_users(skip, limit) ==
    [result |-> Returned([k \in 1..Len(Slice(users_db, skip, limit))
                            |-> UserResponse(Slice(users_db, skip, limit)[k])]),
     users_db |-> users_db]

get_user(user_id) ==
    LET i == FirstWithId(users_db, user_id)
    IN IF i = 0
       THEN [result |-> HTTPException(404, S_User_not_found), users_db |-> users_db]
       ELSE [result |-> Returned(UserResponse(users_db[i])), users_db |-> users_db]

\* update_user that replaces the name and leaves the email
update_user_name_only(user_id, user_update) ==
    LET i == FirstWithId(users_db, user_id)
    IN IF i = 0
       THEN [result |-> HTTPException(404, S_User_not_found), users_db |-> users_db]
       ELSE [result |-> Returned(UserResponse([users_db[i] EXCEPT !.name = user_update.name])),
             users_db |-> [users_db EXCEPT ![i].name = user_update.name]]

\* the user found is changed in place, in the list
update_user(user_id, user_update) ==
    LET i == FirstWithId(users_db, user_id)
    IN IF i = 0
       THEN [result |-> HTTPException(404, S_User_not_found), users_db |-> users_db]
       ELSE [result |-> Returned(UserResponse([users_db[i] EXCEPT
                                                 !.name = user_update.name,
                                                 !.email = user_update.email])),
             users_db |-> [users_db EXCEPT ![i].name = user_update.name,
                                           ![i].email = user_update.email]]

delete_user(user_id) ==
    LET i == FirstWithId(users_db, user_id)
    IN IF i = 0
       THEN [result |-> HTTPException(404, S_User_not_found), users_db |-> users_db]
       ELSE [result |-> Returned([message |-> PyStr(S_User_ \o users_db[i].name
                                                     \o S__deleted_successfully)]),
             users_db |-> Pop(users_db, i)]

(***************************************************************************)
(* Calls of the user handlers: two names and two emails, the ids a list of *)
(* at most MaxUsers users can hold and one on each side of them.           *)
(***************************************************************************)
MaxUsers == 2

UserNames == {S_John_Doe, S_Jane_Doe}

UserEmails == {S_john_doe_email, S_jane_doe_email}

UserCreates == {UserCreate(name, email) : name \in UserNames, email \in UserEmails}

UserIds == 0..(MaxUsers + 1)

\* one call of a handler: its result, and the list it leaves
UserCall(fn, args, out) ==
    /\ Len(out.users_db) <= MaxUsers
    /\ user_call' = [fn |-> fn, args |-> args]
    /\ user_result' = out.result
    /\ users_db' = out.users_db
    /\ UNCHANGED <<op, input, outcome, instance, http_request, http_response, handled,
                   registry>>

CreateUser(user) == UserCall("create_user", [user |-> user], create_user(user))

GetUsers(skip, limit) ==
    UserCall("get_users", [skip |-> skip, limit |-> limit], get_users(skip, limit))

GetUser(user_id) == UserCall("get_user", [user_id |-> user_id], get_user(user_id))

UpdateUser(user_id, user_update) ==
    UserCall("update_user", [user_id |-> user_id, user_update |-> user_update],
             update_user(user_id, user_update))

DeleteUser(user_id) == UserCall("delete_user", [user_id |-> user_id], delete_user(user_id))

NextUsers ==
    \/ \E user \in UserCreates : CreateUser(user)
    \/ \E skip \in 0..1 : \E limit \in {1, 100} : GetUsers(skip, limit)
    \/ \E user_id \in UserIds : GetUser(user_id)
    \/ \E user_id \in UserIds : \E user_update \in UserCreates : UpdateUser(user_id, user_update)
    \/ \E user_id \in UserIds : DeleteUser(user_id)

SpecUsers == Init /\ [][NextUsers]_vars

(***************************************************************************)
(* Properties of ApplicationEndpoint construction                          *)
(***************************************************************************)
\* the value an endpoint input gives for a field (Missing when it gives none)
Given(raw, alias, name) == Lookup(raw.v, alias, name, [populate_by_name |-> TRUE])

Present(v) == v.tag \notin {"missing", "none"}

AddressesGiven(raw) ==
    <<Given(raw, "domainName", "domain_name"),
      Given(raw, "ipv4Address", "ipv4_address"),
      Given(raw, "ipv6Address", "ipv6_address")>>

AddressClasses == <<"DomainName", "SingleIpv4Addr", "SingleIpv6Addr">>

PresentCount(raw) == Cardinality({i \in 1..3 : Present(AddressesGiven(raw)[i])})

\* every field the input supplies is valid on its own, the port included
IndividuallyValid(raw) ==
    /\ \A i \in 1..3 : Present(AddressesGiven(raw)[i])
                          => Validate(AddressClasses[i], AddressesGiven(raw)[i]).ok
    /\ Validate("Port", Given(raw, "port", "port")).ok
    /\ Present(Given(raw, "edgeCloudZone", "edge_cloud_zone"))
          => Validate("EdgeCloudZone", Given(raw, "edgeCloudZone", "edge_cloud_zone")).ok
    /\ Present(Given(raw, "applicationEndpointDescription",
                     "application_endpoint_description"))
          => Given(raw, "applicationEndpointDescription",
                   "application_endpoint_description").tag = "str"

ConstructedEndpoint == op = "construct" /\ input.cls = "ApplicationEndpoint"

CrossFieldError == E(<<>>, "value_error")

\* C1: an ApplicationEndpoint built from individually valid fields and a
\* valid port is accepted exactly when one of domainName, ipv4Address and
\* ipv6Address is present; with none, two or three present the construction
\* fails with the cross-field validation error, and the input holding
\* nothing but port 8080 fails.
C1_ExactlyOneAddress ==
    /\ (ConstructedEndpoint /\ IndividuallyValid(input.raw))
          => /\ outcome.ok <=> PresentCount(input.raw) = 1
             /\ ~outcome.ok => outcome.errors = {CrossFieldError}
    /\ (ConstructedEndpoint /\ input.raw \in {PyDict([port |-> PyInt(8080)]),
                                              PyDict([port |-> Wrapped(PyInt(8080))])})
          => ~outcome.ok

\* the input with a valid port and no address field was refused by the
\* cross-field rule
C1_Witness ==
    /\ ConstructedEndpoint
    /\ input.raw = PyDict([port |-> Wrapped(PyInt(8080))])
    /\ outcome = Err({CrossFieldError})

\* C2: when an ApplicationEndpoint input has a field that is invalid on its
\* own and also breaks the exactly-one-address rule, the errors reported
\* are those of the fields, not the cross-field error: the cross-field check
\* runs only when every field has validated.
C2_FieldErrorsFirst ==
    (ConstructedEndpoint /\ input.raw.tag = "dict")
       => /\ (~IndividuallyValid(input.raw) /\ PresentCount(input.raw) # 1)
                => /\ ~outcome.ok
                   /\ outcome.errors # {}
                   /\ \A e \in outcome.errors : e.loc # <<>>
          /\ CrossFieldError \in outcome.errors => IndividuallyValid(input.raw)

\* an input with a malformed domain name next to a second address was
\* refused with the domain-name error alone
C2_Witness ==
    /\ ConstructedEndpoint
    /\ Given(input.raw, "domainName", "domain_name") = Wrapped(PyStr(S_ex_ample_com))
    /\ Given(input.raw, "ipv4Address", "ipv4_address") = Wrapped(PyStr(S_192_168_1_1))
    /\ Validate("Port", Given(input.raw, "port", "port")).ok
    /\ outcome.errors = {E(<<"domainName", "value">>, "string_pattern_mismatch")}

(***************************************************************************)
(* Properties of construction in general                                   *)
(***************************************************************************)
\* a rule of the class fails on the input: one of its fields does not
\* validate, or it is an endpoint without exactly one address
AnyRuleFails(cls, raw) ==
    \/ \E i \in DOMAIN Class(cls).fields :
          ~ValidateField(Class(cls).fields[i],
                         Lookup(raw.v, Class(cls).fields[i].alias, Class(cls).fields[i].name,
                                [populate_by_name |-> TRUE])).ok
    \/ cls = "ApplicationEndpoint" /\ PresentCount(raw) # 1

\* C3: constructing a composite is all-or-nothing: when a field rule or the
\* cross-field rule fails the attempt ends in an error and the caller gets
\* no instance, partial or otherwise; when none fails the caller gets an
\* instance of the class; there is no third outcome.
C3_AllOrNothing ==
    op = "construct"
       => /\ AnyRuleFails(input.cls, input.raw) <=> ~outcome.ok
          /\ ~outcome.ok => /\ outcome.errors # {}
                            /\ outcome.value = NoneV
                            /\ instance = NoneV
          /\ outcome.ok => /\ outcome.errors = {}
                           /\ instance = outcome.value
                           /\ IsInstance(instance, input.cls)

\* an ApplicationEndpointsInfo whose list holds an endpoint without an
\* address was refused as a whole, and the caller holds nothing
C3_Witness ==
    /\ op = "construct"
    /\ input.cls = "ApplicationEndpointsInfo"
    /\ \E e \in outcome.errors : e.type = "value_error" /\ Len(e.loc) = 2
    /\ ~outcome.ok
    /\ instance = NoneV

\* C4: a constructed value is immutable: no later operation, assigning to
\* one of its fields included, changes a field of the instance the caller
\* holds.
C4_Immutable == [][instance.tag = "model" => instance' = instance]_vars

\* the id and the info an ApplicationEndpointList input gives
GivenListId(raw) == Given(raw, "applicationEndpointListId", "application_endpoint_list_id")

GivenInfo(raw) == Given(raw, "applicationEndpointsInfo", "application_endpoints_info")

\* C5: the applicationEndpointListId of an ApplicationEndpointList is
\* produced internally and never accepted from the caller: creating a
\* record takes only an ApplicationEndpointsInfo, and an identifier the
\* caller supplies is not the record's.
C5_ServerGeneratedId ==
    (op = "construct" /\ input.cls = "ApplicationEndpointList")
       => /\ (~Present(GivenListId(input.raw))
              /\ Validate("ApplicationEndpointsInfo", GivenInfo(input.raw)).ok)
                => outcome.ok
          /\ (Present(GivenListId(input.raw)) /\ outcome.ok)
                => instance.v.application_endpoint_list_id
                      # Validate("ApplicationEndpointListId", GivenListId(input.raw)).value

\* the wire-shaped endpoint of the YAML example, every scalar a bare value
WireEndpoint ==
    PyDict([domainName |-> PyStr(S_app_example_com),
            port |-> PyInt(8080),
            edgeCloudZone |-> ZoneWire])

\* C9: the wire-shaped input with domainName "app.example.com", port 8080
\* and the edgeCloudZone of the example, every scalar given as a bare string
\* or integer, validates into an ApplicationEndpoint.
C9_WireInputValidates ==
    (ConstructedEndpoint /\ input.raw = WireEndpoint)
       => /\ outcome.ok
          /\ IsInstance(instance, "ApplicationEndpoint")

\* C10: serializing a validated aggregate, by field name or by alias, and
\* validating the serialized form again succeeds and gives an aggregate
\* equal to the original.
C10_RoundTrip ==
    op = "revalidate" => /\ outcome.ok
                         /\ outcome.value = instance

\* an ApplicationEndpointList with an endpoint in it came back equal from
\* its JSON dump keyed by field name
C10_Witness ==
    /\ op = "revalidate"
    /\ input.cls = "ApplicationEndpointList"
    /\ ~input.by_alias
    /\ input.mode = "json"
    /\ Len(instance.v.application_endpoints_info.v.application_endpoints.v) >= 1
    /\ outcome = Ok(instance)

(***************************************************************************)
(* Properties of the HTTP layer                                            *)
(***************************************************************************)
S_not_yet_implemented ==
    <<"n", "o", "t", " ", "y", "e", "t", " ", "i", "m", "p", "l", "e", "m", "e", "n", "t",
    "e", "d">>

Contains(s, t) == \E i \in 1..(Len(s) - Len(t) + 1) : SubSeq(s, i, i + Len(t) - 1) = t

BodyClass(h) ==
    IF h = "register_application_endpoints" THEN "RegisterApplicationEndpointsRequest"
    ELSE "UpdateApplicationEndpointRequest"

TakesBody(h) == h \in {"register_application_endpoints", "update_application_endpoint"}

TakesPathId(h) ==
    h \in {"get_application_endpoints_by_id", "update_application_endpoint",
           "deregister_application_endpoint"}

\* the request is for one of the five operations, and its body and path
\* parameter, where the operation has them, pass validation
ValidRequest(r) ==
    LET h == Route(r.method, r.path).handler
    IN /\ h \in Handlers
       /\ TakesBody(h) => Validate(BodyClass(h), r.body).ok
       /\ TakesPathId(h) => UuidRule(PyStr(r.path[Len(r.path)])).ok

\* C7: a request whose body and path parameter pass validation is answered
\* 501 with a detail containing "not yet implemented" by each of the five
\* operations, and serving it creates, changes and removes no registration.
C7_NotImplemented ==
    [][ValidRequest(http_request')
          => /\ handled' = Route(http_request'.method, http_request'.path).handler
             /\ http_response'.status_code = HTTP_501_NOT_IMPLEMENTED
             /\ http_response'.detail.tag = "str"
             /\ Contains(http_response'.detail.v, S_not_yet_implemented)
             /\ registry' = registry]_vars

\* an update with a valid id and a body holding an endpoint was answered
\* 501 and stored nothing
C7_Witness ==
    /\ handled = "update_application_endpoint"
    /\ http_request.body.tag = "dict"
    /\ Len(http_request.body.v.application_endpoints_info.v.applicationEndpoints.v) = 1
    /\ http_response = HTTPException(HTTP_501_NOT_IMPLEMENTED, S_update_detail)
    /\ registry = <<>>

\* C8: a register or update request whose body fails validation is
\* rejected with a client error before the handler runs, and so is never
\* answered 501.
C8_ValidationFirst ==
    (/\ http_request # NoneV
     /\ TakesBody(Route(http_request.method, http_request.path).handler)
     /\ ~Validate(BodyClass(Route(http_request.method, http_request.path).handler),
                  http_request.body).ok)
       => /\ handled = "none"
          /\ http_response.status_code \in 400..499

\* a register request whose endpoint has no single address was answered
\* 422 with the cross-field error, and no handler ran
C8_Witness ==
    /\ http_request # NoneV
    /\ http_request.method = "POST"
    /\ http_response.status_code = HTTP_422_UNPROCESSABLE_ENTITY
    /\ \E e \in http_response.detail.v : e.type = "value_error"
    /\ handled = "none"

(***************************************************************************)
(* Properties of EdgeCloudZone and ApplicationEndpointsInfo construction   *)
(***************************************************************************)
ConstructedZone == op = "construct" /\ input.cls = "EdgeCloudZone"

ZoneId(raw) == Given(raw, "edgeCloudZoneId", "edge_cloud_zone_id")

ZoneName(raw) == Given(raw, "edgeCloudZoneName", "edge_cloud_zone_name")

ZoneProvider(raw) == Given(raw, "edgeCloudProvider", "edge_cloud_provider")

ZoneRegion(raw) == Given(raw, "edgeCloudRegion", "edge_cloud_region")

ZoneStatus(raw) == Given(raw, "edgeCloudZoneStatus", "edge_cloud_zone_status")

\* the input gives a valid id, name and provider
ZoneRequiredValid(raw) ==
    /\ Validate("EdgeCloudZoneId", ZoneId(raw)).ok
    /\ Validate("EdgeCloudZoneName", ZoneName(raw)).ok
    /\ Validate("EdgeCloudProvider", ZoneProvider(raw)).ok

\* the input gives no region, or a valid one
ZoneRegionValid(raw) ==
    Present(ZoneRegion(raw)) => Validate("EdgeCloudRegion", ZoneRegion(raw)).ok

\* C11: an EdgeCloudZone given a valid id, name and provider and neither
\* region nor status is constructed with region unset and status unknown;
\* with id, name or provider missing the construction fails, reporting the
\* missing field.
C11_ZoneDefaults ==
    ConstructedZone
       => /\ (/\ ZoneRequiredValid(input.raw)
              /\ ZoneRegion(input.raw) = Missing
              /\ ZoneStatus(input.raw) = Missing)
                => /\ outcome.ok
                   /\ instance.v.edge_cloud_region = NoneV
                   /\ instance.v.edge_cloud_zone_status = Enum("EdgeCloudZoneStatus", UNKNOWN)
          /\ ZoneId(input.raw) = Missing
                => ~outcome.ok /\ E(<<"edgeCloudZoneId">>, "missing") \in outcome.errors
          /\ ZoneName(input.raw) = Missing
                => ~outcome.ok /\ E(<<"edgeCloudZoneName">>, "missing") \in outcome.errors
          /\ ZoneProvider(input.raw) = Missing
                => ~outcome.ok /\ E(<<"edgeCloudProvider">>, "missing") \in outcome.errors

\* a zone given only id, name and provider was built with the defaults
C11_Witness ==
    /\ ConstructedZone
    /\ DOMAIN input.raw.v = {"edgeCloudZoneId", "edgeCloudZoneName", "edgeCloudProvider"}
    /\ outcome.ok
    /\ instance.v.edge_cloud_region = NoneV
    /\ instance.v.edge_cloud_zone_status = Enum("EdgeCloudZoneStatus", UNKNOWN)

StatusTokens == {ACTIVE, INACTIVE, UNKNOWN}

\* C12: the status of an EdgeCloudZone is one of three states: the tokens
\* "active", "inactive" and "unknown" give exactly the state they name, and
\* any other status that is given makes the construction fail with an error
\* on the status field; it is never replaced by the default unknown.
C12_StatusClosedSet ==
    (/\ ConstructedZone
     /\ ZoneRequiredValid(input.raw)
     /\ ZoneRegionValid(input.raw)
     /\ ZoneStatus(input.raw) # Missing)
       => IF ZoneStatus(input.raw).tag = "str" /\ ZoneStatus(input.raw).v \in StatusTokens
          THEN /\ outcome.ok
               /\ instance.v.edge_cloud_zone_status
                     = Enum("EdgeCloudZoneStatus", ZoneStatus(input.raw).v)
          ELSE IF ZoneStatus(input.raw).tag = "enum"
          THEN outcome.ok /\ instance.v.edge_cloud_zone_status = ZoneStatus(input.raw)
          ELSE /\ ~outcome.ok
               /\ outcome.errors = {E(<<"edgeCloudZoneStatus">>, "enum")}
               /\ instance = NoneV

\* a zone whose only fault is the status "invalid-status" was refused
C12_Witness ==
    /\ ConstructedZone
    /\ ZoneRequiredValid(input.raw)
    /\ ZoneStatus(input.raw) = PyStr(S_invalid_status)
    /\ outcome = Err({E(<<"edgeCloudZoneStatus">>, "enum")})

ConstructedInfo == op = "construct" /\ input.cls = "ApplicationEndpointsInfo"

InfoEndpoints(raw) == Given(raw, "applicationEndpoints", "application_endpoints")

InfoProvider(raw) == Given(raw, "applicationProviderName", "application_provider_name")

InfoDescription(raw) == Given(raw, "applicationDescription", "application_description")

InfoProfile(raw) == Given(raw, "applicationProfileId", "application_profile_id")

\* C13: an ApplicationEndpointsInfo given an empty applicationEndpoints
\* list, a provider name and a valid profile id is constructed with zero
\* endpoints, with or without an applicationDescription; with
\* applicationEndpoints, applicationProviderName or applicationProfileId
\* absent the construction fails, reporting the missing field.
C13_InfoRequiredFields ==
    ConstructedInfo
       => /\ (/\ InfoEndpoints(input.raw).tag = "list"
              /\ Len(InfoEndpoints(input.raw).v) = 0
              /\ InfoProvider(input.raw).tag = "str"
              /\ Validate("ApplicationProfileId", InfoProfile(input.raw)).ok
              /\ InfoDescription(input.raw).tag \in {"missing", "str"})
                => /\ outcome.ok
                   /\ instance.v.application_endpoints.tag = "list"
                   /\ Len(instance.v.application_endpoints.v) = 0
                   /\ InfoDescription(input.raw).tag = "missing"
                         => instance.v.application_description.tag = "none"
          /\ InfoEndpoints(input.raw).tag = "missing"
                => ~outcome.ok /\ E(<<"applicationEndpoints">>, "missing") \in outcome.errors
          /\ InfoProvider(input.raw).tag = "missing"
                => ~outcome.ok /\ E(<<"applicationProviderName">>, "missing") \in outcome.errors
          /\ InfoProfile(input.raw).tag = "missing"
                => ~outcome.ok /\ E(<<"applicationProfileId">>, "missing") \in outcome.errors

\* an info with an empty list and no description was built with zero endpoints
C13_Witness ==
    /\ ConstructedInfo
    /\ InfoEndpoints(input.raw).tag = "list"
    /\ Len(InfoEndpoints(input.raw).v) = 0
    /\ InfoDescription(input.raw).tag = "missing"
    /\ outcome.ok
    /\ Len(instance.v.application_endpoints.v) = 0
    /\ instance.v.application_description.tag = "none"

(***************************************************************************)
(* Properties of the scalar value types                                    *)
(***************************************************************************)
\* cls(value=prim) was called
ConstructedValue(cls) ==
    /\ op = "construct"
    /\ input.cls = cls
    /\ DOMAIN input.raw.v = {"value"}

\* the string read position by position: 4 to 253 characters of letters,
\* digits, hyphens and dots, with a dot in it, a letter or digit at both
\* ends and on both sides of every dot, and no 64 characters without a dot
WellFormedDomain(s) ==
    /\ Len(s) >= 4
    /\ Len(s) <= 253
    /\ \A i \in 1..Len(s) : s[i] \in AlNum \cup {"-", "."}
    /\ \E i \in 1..Len(s) : s[i] = "."
    /\ s[1] \in AlNum
    /\ s[Len(s)] \in AlNum
    /\ \A i \in 1..Len(s) : s[i] = "." => s[i - 1] \in AlNum /\ s[i + 1] \in AlNum
    /\ \A i \in 1..(Len(s) - 63) : \E j \in i..(i + 63) : s[j] = "."

\* C14: a string of 4 to 253 characters made of at least two dot-separated
\* labels, each 1 to 63 letters, digits and hyphens with no hyphen at
\* either end, is accepted by DomainName, and the value constructed holds
\* the string unchanged; "a.bc", "app.example.com" and "xn--nxasmq6b.com"
\* are accepted.
C14_DomainAccepted ==
    ConstructedValue("DomainName")
       => /\ WellFormedDomain(input.raw.v.value.v)
                => /\ outcome.ok
                   /\ instance = Model("DomainName", [value |-> input.raw.v.value])
          /\ input.raw.v.value.v \in {S_a_bc, S_app_example_com, S_xn_nxasmq6b_com}
                => outcome.ok

\* a name of 253 characters with three labels of 63 was accepted unchanged
C14_Witness ==
    /\ ConstructedValue("DomainName")
    /\ Len(input.raw.v.value.v) = 253
    /\ Len(SplitOn(input.raw.v.value.v, ".")[1]) = 63
    /\ outcome.ok
    /\ instance.v.value = input.raw.v.value

\* C15: DomainName construction fails for every string with an empty label
\* (leading, trailing or consecutive dots), with fewer than two labels, with
\* a label that begins or ends with a hyphen or holds a character other than
\* letters, digits and hyphens, or a label of more than 63 characters, and
\* for every string shorter than 4 or longer than 253 characters; "", ".",
\* "a.b", "example", "example.", ".example.com", "example..com" and
\* "ex ample.com" fail.
C15_DomainRejected ==
    ConstructedValue("DomainName")
       => /\ ~WellFormedDomain(input.raw.v.value.v)
                => /\ ~outcome.ok
                   /\ outcome.errors # {}
                   /\ instance = NoneV
          /\ input.raw.v.value.v \in {<<>>, <<".">>, S_a_b, S_example, S_example_dot,
                                      S_dot_example_com, S_example__com, S_ex_ample_com}
                => ~outcome.ok

\* "example..com" was refused for its form, "a.b" for its length
C15_Witness ==
    /\ ConstructedValue("DomainName")
    /\ \/ /\ input.raw.v.value.v = S_example__com
          /\ outcome = Err({E(<<"value">>, "string_pattern_mismatch")})
       \/ /\ input.raw.v.value.v = S_a_b
          /\ outcome = Err({E(<<"value">>, "string_too_short")})

\* C16: Port construction succeeds for every integer from 0 to 65535,
\* keeping the value, and fails for every integer below 0 or above 65535,
\* -1 and 65536 among them; an ApplicationEndpoint given no port is not
\* constructed.
C16_PortRange ==
    /\ ConstructedValue("Port")
          => IF input.raw.v.value.v >= 0 /\ input.raw.v.value.v <= 65535
             THEN /\ outcome.ok
                  /\ instance = Model("Port", [value |-> input.raw.v.value])
             ELSE ~outcome.ok /\ instance = NoneV
    /\ (ConstructedEndpoint /\ ~Present(Given(input.raw, "port", "port")))
          => ~outcome.ok /\ instance = NoneV
    /\ (ConstructedEndpoint /\ Given(input.raw, "port", "port") = Missing)
          => E(<<"port">>, "missing") \in outcome.errors

\* port 65535 was accepted
C16_Witness ==
    /\ ConstructedValue("Port")
    /\ input.raw.v.value = PyInt(65535)
    /\ outcome.ok
    /\ instance.v.value = PyInt(65535)

ConstructedResponse == op = "construct" /\ input.cls = "RegisterApplicationEndpointsApiResponse"

\* C17: XCorrelator construction succeeds for every string of 0 to 256
\* characters drawn from letters, digits and - _ : ; . / < > { }, the empty
\* string and 256 times "a" among them, keeping the string, and fails for
\* every longer string and every string with another character; a response
\* wrapper is also valid with its correlator unset, which is not the same
\* as the empty string.
C17_CorrelatorRule ==
    /\ ConstructedValue("XCorrelator")
          => IF /\ Len(input.raw.v.value.v) <= 256
                /\ \A i \in 1..Len(input.raw.v.value.v) :
                      input.raw.v.value.v[i]
                         \in AlNum \cup {"-", "_", ":", ";", ".", "/", "<", ">", "{", "}"}
             THEN /\ outcome.ok
                  /\ instance = Model("XCorrelator", [value |-> input.raw.v.value])
             ELSE ~outcome.ok /\ instance = NoneV
    /\ (ConstructedResponse /\ ~Present(Given(input.raw, "x-correlator", "x_correlator")))
          => /\ outcome.ok
             /\ instance.v.x_correlator = NoneV
    /\ (ConstructedResponse
        /\ Given(input.raw, "x-correlator", "x_correlator") = Wrapped(PyStr(<<>>)))
          => /\ outcome.ok
             /\ instance.v.x_correlator = Model("XCorrelator", [value |-> PyStr(<<>>)])
             /\ instance.v.x_correlator # NoneV

\* 256 times "a" was accepted as a correlator
C17_Witness ==
    /\ ConstructedValue("XCorrelator")
    /\ input.raw.v.value.v = Rep("a", 256)
    /\ outcome.ok

(***************************************************************************)
(* The correlator of a request, the order of an endpoint list, and IPv6    *)
(* literals                                                                *)
(***************************************************************************)
\* C18: two requests to one of the five registration operations that differ
\* only in the x-correlator header, present or not and whatever its value,
\* have the same outcome: the same status and response body, the same
\* handler run, the same registrations left stored.
C18_CorrelatorNoEffect ==
    [][(/\ http_request # NoneV
        /\ Route(http_request.method, http_request.path).handler \in Handlers
        /\ http_request'.method = http_request.method
        /\ http_request'.path = http_request.path
        /\ http_request'.body = http_request.body)
          => /\ http_response' = http_response
             /\ handled' = handled
             /\ registry' = registry]_vars

\* a request carrying a correlator that is no valid XCorrelator was
\* answered by its handler like any other
C18_Witness ==
    /\ http_request # NoneV
    /\ http_request.x_correlator = PyStr(S_bad_correlator)
    /\ handled = "get_all_registered_application_endpoints"
    /\ http_response = HTTPException(HTTP_501_NOT_IMPLEMENTED, S_get_all_detail)

\* the port an item of an endpoint list was given, as Port instance or as dict
GivenPort(item) == item.v.port.v.value

\* built holds, position by position, the endpoints of given
SameSequence(given, built) ==
    /\ Len(built) = Len(given)
    /\ \A i \in 1..Len(given) :
          /\ built[i] = Validate("ApplicationEndpoint", given[i]).value
          /\ built[i].v.port.v.value = GivenPort(given[i])

\* C19: the endpoints of a constructed ApplicationEndpointsInfo are the
\* endpoints supplied, in the caller's order: the i-th endpoint of the
\* aggregate is the i-th supplied, none dropped, duplicated or re-sorted.
C19_OrderPreserved ==
    (ConstructedInfo /\ outcome.ok)
       => SameSequence(InfoEndpoints(input.raw).v, instance.v.application_endpoints.v)

\* two different endpoints were kept in the order given, the larger port first
C19_Witness ==
    /\ ConstructedInfo
    /\ outcome.ok
    /\ Len(instance.v.application_endpoints.v) = 2
    /\ instance.v.application_endpoints.v[1].v.port.v.value = PyInt(8080)
    /\ instance.v.application_endpoints.v[2].v.port.v.value = PyInt(80)
    /\ GivenPort(InfoEndpoints(input.raw).v[1]) = PyInt(8080)

\* the places where s has "::"
DoubleColons(s) == {i \in 1..(Len(s) - 1) : s[i] = ":" /\ s[i + 1] = ":"}

\* C20: SingleIpv6Addr construction succeeds for valid IPv6 literals, the
\* form with a %zone suffix included ("::1", "2001:db8::1", "fe80::1%lo0"),
\* and keeps the string unchanged; it fails for an IPv4 literal
\* ("192.168.1.1"), an IPv4-mapped literal, the empty string and a literal
\* with two "::".
C20_Ipv6Literals ==
    ConstructedValue("SingleIpv6Addr")
       => /\ input.raw.v.value.v \in {S_loopback, S_2001_db8__1, S_fe80__1_lo0,
                                      S_2001_db8_85a3, S_full_ipv6}
                => outcome.ok
          /\ outcome.ok => instance = Model("SingleIpv6Addr", [value |-> input.raw.v.value])
          /\ input.raw.v.value.v \in {S_192_168_1_1, S_ipv4_mapped, <<>>, S_2001_db8__1__2,
                                      S_invalid_ip}
                => ~outcome.ok /\ instance = NoneV
          /\ (\E i \in 1..Len(input.raw.v.value.v) : input.raw.v.value.v[i] = ".")
                => ~outcome.ok
          /\ Cardinality(DoubleColons(input.raw.v.value.v)) >= 2 => ~outcome.ok

\* "fe80::1%lo0" was accepted with its zone, unchanged
C20_Witness ==
    /\ ConstructedValue("SingleIpv6Addr")
    /\ input.raw.v.value.v = S_fe80__1_lo0
    /\ outcome.ok
    /\ instance.v.value = PyStr(S_fe80__1_lo0)
(***************************************************************************)
(* Properties of the routes the application serves                         *)
(***************************************************************************)
HealthPath == api_prefix \o <<"health">>

UsersPath == api_prefix \o <<"users">>

\* C21: the application serves the health and user endpoints under /api/v1:
\* a GET of /api/v1/health is routed to health_check and answered 200, and a
\* POST of /api/v1/users with a new email is routed to create_user and
\* answered 200, not 404 as for a path no route has.
C21_HealthAndUsersServed ==
    /\ (http_request # NoneV /\ http_request.method = "GET" /\ http_request.path = HealthPath)
          => /\ handled = "health_check"
             /\ http_response.status_code = 200
    /\ (http_request # NoneV /\ http_request.method = "POST" /\ http_request.path = UsersPath)
          => /\ handled = "create_user"
             /\ http_response.status_code = 200

(***************************************************************************)
(* Properties of the user handlers                                         *)
(***************************************************************************)
\* the last call was of the handler fn
UserCalled(call, fn) == call.fn = fn

\* C22: create_user with an email some stored user has fails with 400
\* "Email already registered" and leaves the store as it was; with an email
\* no stored user has it appends exactly one user, with the given name and
\* email and is_active true, and returns that user.
C22_CreateUser ==
    [][UserCalled(user_call', "create_user")
          => IF \E i \in 1..Len(users_db) : users_db[i].email = user_call'.args.user.email
             THEN /\ user_result'.status_code = 400
                  /\ user_result'.detail = PyStr(S_Email_already_registered)
                  /\ users_db' = users_db
             ELSE /\ Len(users_db') = Len(users_db) + 1
                  /\ SubSeq(users_db', 1, Len(users_db)) = users_db
                  /\ users_db'[Len(users_db')].name = user_call'.args.user.name
                  /\ users_db'[Len(users_db')].email = user_call'.args.user.email
                  /\ users_db'[Len(users_db')].is_active
                  /\ user_result'.status_code = 200
                  /\ user_result'.body = users_db'[Len(users_db')]]_vars

\* a second create_user with the email of the one stored user was refused
C22_Witness ==
    /\ UserCalled(user_call, "create_user")
    /\ Len(users_db) = 1
    /\ users_db[1].email = user_call.args.user.email
    /\ users_db[1].name # user_call.args.user.name
    /\ user_result.status_code = 400

\* some stored user holds the id
Stored(db, user_id) == \E i \in 1..Len(db) : db[i].id = user_id

\* C23: after any sequence of user operations, a get_user(id) that comes
\* immediately after a delete_user(id) that succeeded answers 404; and
\* get_user, update_user and delete_user with an id no stored user holds
\* answer 404 and leave the store as it was.
C23_DeletedIsGone ==
    [][/\ (/\ UserCalled(user_call, "delete_user")
           /\ user_result.status_code = 200
           /\ UserCalled(user_call', "get_user")
           /\ user_call'.args.user_id = user_call.args.user_id)
             => user_result'.status_code = 404
       /\ (/\ user_call'.fn \in {"get_user", "update_user", "delete_user"}
           /\ ~Stored(users_db, user_call'.args.user_id))
             => /\ user_result'.status_code = 404
                /\ users_db' = users_db]_vars

\* C24: update_user with a stored id gives the first user holding that id
\* the supplied name and email and returns them; that user's id and
\* is_active, the number and the order of the stored users and every other
\* stored user stay as they were.
C24_UpdateUserFrame ==
    [][(UserCalled(user_call', "update_user") /\ Stored(users_db, user_call'.args.user_id))
          => /\ Len(users_db') = Len(users_db)
             /\ \E i \in 1..Len(users_db) :
                   /\ users_db[i].id = user_call'.args.user_id
                   /\ users_db'[i].name = user_call'.args.user_update.name
                   /\ users_db'[i].email = user_call'.args.user_update.email
                   /\ users_db'[i].id = users_db[i].id
                   /\ users_db'[i].is_active = users_db[i].is_active
                   /\ \A j \in 1..Len(users_db) : j # i => users_db'[j] = users_db[j]
                   /\ user_result'.status_code = 200
                   /\ user_result'.body = users_db'[i]]_vars

\* the second of two stored users was given the name and the email of the
\* update, both different from those of the first
C24_Witness ==
    /\ UserCalled(user_call, "update_user")
    /\ Len(users_db) = 2
    /\ user_call.args.user_id = users_db[2].id
    /\ users_db[1].id # users_db[2].id
    /\ users_db[2].name = user_call.args.user_update.name
    /\ users_db[2].email = user_call.args.user_update.email
    /\ users_db[1].name # users_db[2].name
    /\ users_db[1].email # users_db[2].email
    /\ user_result.status_code = 200

\* C26: after any sequence of create_user, update_user and delete_user, no
\* two users in the store have the same id.
C26_UniqueIds ==
    \A i, j \in 1..Len(users_db) : users_db[i].id = users_db[j].id => i = j

\* C27: after any sequence of create_user, update_user and delete_user, no
\* two users in the store have the same email.
C27_UniqueEmails ==
    \A i, j \in 1..Len(users_db) : users_db[i].email = users_db[j].email => i = j

(***************************************************************************)
(* Properties of a held ApplicationEndpoint                                *)
(***************************************************************************)
\* the address fields of an ApplicationEndpoint instance that are not None
AddressesSet(endpoint) ==
    {f \in {"domain_name", "ipv4_address", "ipv6_address"} : endpoint.v[f].tag # "none"}

\* C25: in every state reached by constructing an ApplicationEndpoint and
\* then assigning to its fields any number of times, exactly one of
\* domain_name, ipv4_address and ipv6_address is not None.
C25_ExactlyOneForLife ==
    IsInstance(instance, "ApplicationEndpoint") => Cardinality(AddressesSet(instance)) = 1

(***************************************************************************)
(* Properties of the parameters of the registration operations             *)
(***************************************************************************)
\* the handler the routes select for the request
RouteHandler(r) == Route(r.method, r.path).handler

\* C28: every x-correlator header a registration operation accepts
\* satisfies the XCorrelator rule: a request whose header is longer than 256
\* characters or has a character outside the pattern is rejected by
\* validation with 422 and does not reach the handler.
C28_HeaderValidated ==
    (/\ http_request # NoneV
     /\ RouteHandler(http_request) \in Handlers
     /\ http_request.x_correlator.tag = "str")
       => /\ handled \in Handlers => XCorrelatorRule(http_request.x_correlator).ok
          /\ ~XCorrelatorRule(http_request.x_correlator).ok
                => /\ handled = "none"
                   /\ http_response.status_code = HTTP_422_UNPROCESSABLE_ENTITY

\* the last segment of the path
PathId(r) == r.path[Len(r.path)]

\* C29: get-by-id, update and deregister take the list id from the path
\* parameter only: a request whose path parameter is not a valid UUID is
\* answered 422 for that parameter and no handler runs; and the request an
\* update hands its handler holds an ApplicationEndpointsInfo and nothing
\* else, whatever id the body carried, the id being that of the path.
C29_IdFromPath ==
    (http_request # NoneV /\ TakesPathId(RouteHandler(http_request)))
       => /\ ~UuidRule(PyStr(PathId(http_request))).ok
                => /\ handled = "none"
                   /\ http_response.status_code = HTTP_422_UNPROCESSABLE_ENTITY
                   /\ \E e \in http_response.detail.v :
                         e.loc = <<"application_endpoint_list_id">>
          /\ handled # "none"
                => Params(handled, http_request).value.application_endpoint_list_id
                      = UuidRule(PyStr(PathId(http_request))).value
          /\ handled = "update_application_endpoint"
                => /\ IsInstance(Params(handled, http_request).value.request,
                                 "UpdateApplicationEndpointRequest")
                   /\ DOMAIN Params(handled, http_request).value.request.v
                         = {"application_endpoints_info"}
                   /\ IsInstance(Params(handled, http_request).value.request.v
                                    .application_endpoints_info,
                                 "ApplicationEndpointsInfo")

\* an update whose body is valid and whose path id is not a UUID was
\* answered 422 for the path parameter alone, and no handler ran
C29_Witness ==
    /\ http_request # NoneV
    /\ http_request.method = "PUT"
    /\ http_request.body = BodyWithId
    /\ PathId(http_request) = S_invalid_uuid
    /\ handled = "none"
    /\ http_response.status_code = HTTP_422_UNPROCESSABLE_ENTITY
    /\ Cardinality(http_response.detail.v) = 1
====
